---- MODULE Spec2Model ----
(***************************************************************************)
(* Transactional-integrity core of the AgentsWallets CLI: the decide       *)
(* transaction (idempotency reservation, spend statistics, policy          *)
(* evaluation, pending insert), the external call, finalization and the    *)
(* audit log, run by independent processes on one shared SQLite store.     *)
(***************************************************************************)
EXTENDS Integers, Sequences, FiniteSets, TLC

(* ----------------------------- bounds ---------------------------------- *)
\* number of command invocations; each runs in an OS process of its own
MaxInvocations == 2
\* number of UTC midnights that pass
MaxTime == 1
\* minutes on the session clock
MaxClock == 20

(* ------------------------ program constants ---------------------------- *)
\* one model time unit is 24 hours; a reserved key is stale after 48 hours
STALE_AGE == 2
MICRO == 1000000
\* constants.ts SESSION_TTL_MINUTES with AW_SESSION_TTL_MINUTES unset
SESSION_TTL_MINUTES == 15

(* ------------------------------ numbers -------------------------------- *)
\* A JS number holding a token quantity is modelled as an integer count of
\* quanta, QUANTA to the micro-unit, so that values off the micro-unit grid
\* (floating-point noise of a sum, a seventh decimal) exist in the model.
QUANTA == 4
TOKEN == MICRO * QUANTA

(* --------------------------- input domains ----------------------------- *)
Procs == 1..MaxInvocations
Wallets == {"w1"}
Keys == {"k1", "k2"}
RawTokens == {"USDC", "USDC.e"}
Amounts == {2 * TOKEN, 3 * TOKEN}
Prices == {1}
Addresses == {"0xAA"}
GatedCmds == {"send", "buy", "sell"}
UngatedCmds == {"ctf_split", "ctf_merge", "ctf_redeem", "approve_set", "cancel"}
Receipts == {"confirmed", "failed", "timeout"}
ProviderResponses ==
  { [id |-> "ord1", status |-> "submitted"],
    [id |-> "ord1", status |-> "live"],
    [id |-> "",     status |-> "submitted"] }

NULL == -1
NONE == "none"
UNDEFINED == "undefined"
NoRow == [status |-> "absent"]
NoResult == [kind |-> "none"]

(* ------------------------------ strings -------------------------------- *)
\* String.prototype.toUpperCase on the token spellings that occur
toUpperCase(t) ==
  CASE t = "USDC.e" -> "USDC.E"
    [] t = "usdc.e" -> "USDC.E"
    [] t = "usdc"   -> "USDC"
    [] t = "pol"    -> "POL"
    [] OTHER        -> t

\* String.prototype.toLowerCase on the addresses that occur
toLowerCase(a) ==
  CASE a = "0xAA" -> "0xaa"
    [] a = "0xBB" -> "0xbb"
    [] OTHER      -> a

\* tx.ts: canonical token of aw send; "invalid" stands for the thrown
\* ERR_INVALID_PARAMS
canonicalToken(raw) ==
  LET tokenUpper == toUpperCase(raw)
      token == IF tokenUpper = "USDC.E" \/ raw = "USDC.e" THEN "USDC.e" ELSE tokenUpper
  IN IF token # "POL" /\ token # "USDC" /\ token # "USDC.e" THEN "invalid" ELSE token

\* policy-engine.ts normalizeToken
normalizeToken(t) ==
  LET upper == toUpperCase(t) IN IF upper = "USDC.E" THEN "USDC.e" ELSE upper

\* mutant for C17: amounts are compared as the raw numbers
toMicroUnitsRaw(n) == n

\* policy-engine.ts toMicroUnits: Math.round(n * 1e6), halves rounded up
toMicroUnits(n) == (n \div QUANTA) + (IF 2 * (n % QUANTA) >= QUANTA THEN 1 ELSE 0)

(* ---------------------------- validation ------------------------------ *)
\* the two values of a JS number that are not quantities: what
\* z.coerce.number() yields for "abc" and for "Infinity"
NaN == -2147483647
Infinity == 2147483647

\* ethers isAddress on the address strings that occur
isAddress(a) == a \in {"0xAA", "0xBB", "0xaa", "0xbb"}

\* mutant for C26: zero and negative amounts pass
requirePositiveNumberFinite(n) == n # NaN /\ n # Infinity

\* validate.ts requirePositiveNumber on the coerced number; FALSE is the
\* thrown ERR_INVALID_PARAMS
requirePositiveNumber(n) == n # NaN /\ n # Infinity /\ n > 0

\* validate.ts requirePositiveInt: counts are plain integers in the model
requirePositiveInt(n, max) == n # NaN /\ n # Infinity /\ n > 0 /\ n <= max

(* ------------------------------ session -------------------------------- *)
\* sha256 of a session token, idealized as its preimage
sha256Token(token) == [sha256 |-> token]

\* AW_UNLOCK_TOKEN, else the session-token file, else null
readTokenFromEnvOrFile(s) == IF s.env # NONE THEN s.env ELSE s.tokenFile

\* session.ts createSession: session.json and session-token are written
createSession(s, token, ttlMinutes) ==
  [ s EXCEPT !.file = [ token_hash |-> sha256Token(token),
                        expires_at |-> s.time + ttlMinutes ],
             !.tokenFile = token ]

\* mutant for C24: the session file alone is sufficient
isSessionValidFileOnly(s) ==
  IF s.file = NoRow THEN FALSE ELSE s.file.expires_at > s.time

\* session.ts isSessionValid
isSessionValid(s) ==
  IF s.file = NoRow THEN FALSE
  ELSE IF s.file.expires_at <= s.time THEN FALSE
  ELSE IF readTokenFromEnvOrFile(s) = NONE THEN FALSE
  ELSE sha256Token(readTokenFromEnvOrFile(s)) = s.file.token_hash

\* mutant for C29: the expiry of an expired session is extended as well
touchSessionExpired(s) ==
  IF s.file = NoRow THEN s
  ELSE IF readTokenFromEnvOrFile(s) = NONE THEN s
  ELSE IF sha256Token(readTokenFromEnvOrFile(s)) # s.file.token_hash THEN s
  ELSE [s EXCEPT !.file.expires_at = s.time + SESSION_TTL_MINUTES]

\* session.ts touchSession
touchSession(s) ==
  IF s.file = NoRow THEN s
  ELSE IF s.file.expires_at <= s.time THEN s
  ELSE IF readTokenFromEnvOrFile(s) = NONE THEN s
  ELSE IF sha256Token(readTokenFromEnvOrFile(s)) # s.file.token_hash THEN s
  ELSE [s EXCEPT !.file.expires_at = s.time + SESSION_TTL_MINUTES]

\* session.ts clearSession: both files are unlinked
clearSession(s) == [s EXCEPT !.file = NoRow, !.tokenFile = NONE]

\* the session files before the first aw unlock
NoSession == [time |-> 0, file |-> NoRow, tokenFile |-> NONE, env |-> NONE]

\* the session files right after aw unlock
UnlockedSession == createSession(NoSession, "tok1", SESSION_TTL_MINUTES)

(* ----------------------------- exit codes ------------------------------ *)
\* types.ts AppErrorCode
AppErrorCodes ==
  { "ERR_NOT_INITIALIZED", "ERR_NEED_UNLOCK", "ERR_INVALID_PARAMS",
    "ERR_WALLET_NOT_FOUND", "ERR_MARKET_NOT_FOUND", "ERR_INVALID_AMOUNT",
    "ERR_TOKEN_NOT_ALLOWED", "ERR_ADDRESS_NOT_ALLOWED", "ERR_DAILY_LIMIT_EXCEEDED",
    "ERR_PER_TX_LIMIT_EXCEEDED", "ERR_APPROVAL_THRESHOLD_EXCEEDED",
    "ERR_TX_COUNT_LIMIT_EXCEEDED", "ERR_INSUFFICIENT_FUNDS", "ERR_RPC_UNAVAILABLE",
    "ERR_TX_FAILED", "ERR_POLYMARKET_CLI_NOT_FOUND", "ERR_POLYMARKET_FAILED",
    "ERR_POLYMARKET_TIMEOUT", "ERR_POLYMARKET_AUTH", "ERR_AUTH_FAILED",
    "ERR_INTERNAL" }

\* messages of errors that are not an AppError
RawErrors == {"insufficient funds for gas", "network timeout", "SQLITE_BUSY_SNAPSHOT"}

\* rpc.ts mapRpcError: the code of the AppError it throws
mapRpcError(raw) ==
  CASE raw = "insufficient funds for gas" -> "ERR_INSUFFICIENT_FUNDS"
    [] raw = "network timeout"            -> "ERR_RPC_UNAVAILABLE"
    [] OTHER                              -> "ERR_INTERNAL"

\* mutant for C30: every error exits with 1
exitCodeForErrorAlwaysOne(code) == 1

\* errors.ts exitCodeForError
exitCodeForError(code) ==
  IF code \in {"ERR_NEED_UNLOCK", "ERR_AUTH_FAILED", "ERR_POLYMARKET_AUTH"} THEN 3
  ELSE IF code \in { "ERR_RPC_UNAVAILABLE", "ERR_POLYMARKET_CLI_NOT_FOUND",
                     "ERR_POLYMARKET_FAILED", "ERR_POLYMARKET_TIMEOUT",
                     "ERR_TX_FAILED", "ERR_INTERNAL" } THEN 2
  ELSE 1

\* output.ts runCommand: the code reported and the exit code the process
\* ends with; error = NONE is fn returning
runCommand(error) ==
  LET code == IF error \in AppErrorCodes THEN error ELSE mapRpcError(error) IN
  IF error = NONE THEN [ok |-> TRUE, code |-> NONE, exitCode |-> 0]
  ELSE [ok |-> FALSE, code |-> code, exitCode |-> exitCodeForError(code)]

(* ------------------------------ policy --------------------------------- *)
\* constants.ts DEFAULT_POLICY
DEFAULT_POLICY ==
  [ per_tx_limit |-> 100 * TOKEN, daily_limit |-> 500 * TOKEN, max_tx_per_day |-> 20,
    allowed_tokens |-> <<"POL", "USDC", "USDC.e">>,
    allowed_addresses |-> <<>>,
    require_approval_above |-> NULL ]

\* rows of the policies table the model starts from (aw policy set)
PolicyRows ==
  { [ per_tx_limit |-> 3 * TOKEN, daily_limit |-> 4 * TOKEN, max_tx_per_day |-> 3,
      allowed_tokens |-> <<"POL", "USDC", "USDC.e">>,
      allowed_addresses |-> <<>>,
      require_approval_above |-> NULL ] }

\* mutant for C23: a wallet without a row has no limits
getPolicyUnlimited(policyTable, walletId) ==
  IF policyTable[walletId] = NoRow
    THEN [ per_tx_limit |-> NULL, daily_limit |-> NULL, max_tx_per_day |-> NULL,
           allowed_tokens |-> <<>>, allowed_addresses |-> <<>>,
           require_approval_above |-> NULL ]
    ELSE policyTable[walletId]

\* wallet-store.ts getPolicy: the stored row, or the restrictive default
getPolicy(policyTable, walletId) ==
  IF policyTable[walletId] = NoRow THEN DEFAULT_POLICY ELSE policyTable[walletId]

\* wallet-store.ts upsertPolicy: addresses are stored in lower case
upsertPolicy(policyTable, walletId, policy) ==
  [ policyTable EXCEPT ![walletId] =
      [ policy EXCEPT !.allowed_addresses =
          [ i \in 1..Len(policy.allowed_addresses) |->
              toLowerCase(policy.allowed_addresses[i]) ] ] ]

SeqToSet(s) == { s[i] : i \in 1..Len(s) }

\* mutant for C16: the daily ceiling is checked before the per-tx ceiling
spendLimitDenialDailyFirst(policy, amount, stats, skipSpendLimits) ==
  IF skipSpendLimits THEN NONE
  ELSE IF policy.daily_limit # NULL
          /\ toMicroUnits(stats.todaySpent + amount) > toMicroUnits(policy.daily_limit)
    THEN "ERR_DAILY_LIMIT_EXCEEDED"
  ELSE IF policy.per_tx_limit # NULL
          /\ toMicroUnits(amount) > toMicroUnits(policy.per_tx_limit)
    THEN "ERR_PER_TX_LIMIT_EXCEEDED"
  ELSE IF policy.require_approval_above # NULL
          /\ toMicroUnits(amount) > toMicroUnits(policy.require_approval_above)
    THEN "ERR_APPROVAL_THRESHOLD_EXCEEDED"
  ELSE NONE

\* mutant for C18: skipSpendLimits is ignored
spendLimitDenialNeverSkipped(policy, amount, stats, skipSpendLimits) ==
  IF policy.per_tx_limit # NULL
     /\ toMicroUnits(amount) > toMicroUnits(policy.per_tx_limit)
    THEN "ERR_PER_TX_LIMIT_EXCEEDED"
  ELSE IF policy.daily_limit # NULL
          /\ toMicroUnits(stats.todaySpent + amount) > toMicroUnits(policy.daily_limit)
    THEN "ERR_DAILY_LIMIT_EXCEEDED"
  ELSE IF policy.require_approval_above # NULL
          /\ toMicroUnits(amount) > toMicroUnits(policy.require_approval_above)
    THEN "ERR_APPROVAL_THRESHOLD_EXCEEDED"
  ELSE NONE

\* evaluatePolicy's block under if (!input.skipSpendLimits): the code of the
\* first spend check that fails, or NONE
spendLimitDenial(policy, amount, stats, skipSpendLimits) ==
  IF skipSpendLimits THEN NONE
  ELSE IF policy.per_tx_limit # NULL
          /\ toMicroUnits(amount) > toMicroUnits(policy.per_tx_limit)
    THEN "ERR_PER_TX_LIMIT_EXCEEDED"
  ELSE IF policy.daily_limit # NULL
          /\ toMicroUnits(stats.todaySpent + amount) > toMicroUnits(policy.daily_limit)
    THEN "ERR_DAILY_LIMIT_EXCEEDED"
  ELSE IF policy.require_approval_above # NULL
          /\ toMicroUnits(amount) > toMicroUnits(policy.require_approval_above)
    THEN "ERR_APPROVAL_THRESHOLD_EXCEEDED"
  ELSE NONE

evaluatePolicy(policy, token, amount, toAddress, stats, skipSpendLimits) ==
  LET tk == normalizeToken(token)
      allowedTokens == { normalizeToken(x) : x \in SeqToSet(policy.allowed_tokens) }
      allowedAddresses == { toLowerCase(x) : x \in SeqToSet(policy.allowed_addresses) }
      spend == spendLimitDenial(policy, amount, stats, skipSpendLimits)
  IN
  IF allowedTokens # {} /\ tk \notin allowedTokens
    THEN [status |-> "denied", code |-> "ERR_TOKEN_NOT_ALLOWED"]
  ELSE IF toAddress # NONE /\ allowedAddresses # {}
          /\ toLowerCase(toAddress) \notin allowedAddresses
    THEN [status |-> "denied", code |-> "ERR_ADDRESS_NOT_ALLOWED"]
  ELSE IF spend # NONE
    THEN [status |-> "denied", code |-> spend]
  ELSE IF policy.max_tx_per_day # NULL /\ stats.todayTxCount + 1 > policy.max_tx_per_day
    THEN [status |-> "denied", code |-> "ERR_TX_COUNT_LIMIT_EXCEEDED"]
  ELSE [status |-> "allowed", code |-> NONE]

(* ------------------------------ ledger --------------------------------- *)
activeStatuses == {"pending", "broadcasted", "confirmed", "submitted", "filled"}

RECURSIVE SumAmount(_)
SumAmount(S) ==
  IF S = {} THEN 0
  ELSE LET o == CHOOSE x \in S : TRUE IN o.amount + SumAmount(S \ {o})

\* mutant for C19: the transaction count is taken per token as well
dailySpendStatsCountPerToken(opsTable, today, walletId, token) ==
  LET upperToken == toUpperCase(token)
      spendRows == { o \in opsTable : /\ o.wallet_id = walletId
                                      /\ o.token = upperToken
                                      /\ o.created_at >= today
                                      /\ o.status \in activeStatuses }
  IN [todaySpent |-> SumAmount(spendRows), todayTxCount |-> Cardinality(spendRows)]

\* tx-service.ts dailySpendStats: one model time unit is one UTC day, so
\* created_at >= dayStart is created_at >= today
dailySpendStats(opsTable, today, walletId, token) ==
  LET upperToken == toUpperCase(token)
      spendRows == { o \in opsTable : /\ o.wallet_id = walletId
                                      /\ o.token = upperToken
                                      /\ o.created_at >= today
                                      /\ o.status \in activeStatuses }
      countRows == { o \in opsTable : /\ o.wallet_id = walletId
                                      /\ o.created_at >= today
                                      /\ o.status \in activeStatuses }
  IN [todaySpent |-> SumAmount(spendRows), todayTxCount |-> Cardinality(countRows)]

\* idempotency.ts getOperationByIdempotencyKey: the row or {} (null)
getOperationByIdempotencyKey(opsTable, key) ==
  { o \in opsTable : o.idempotency_key = key }

\* idempotency.ts IDEMPOTENCY_KEY_RE
ValidKey(key) == key \in {"k1", "k2", "k3"}

\* mutant for C21: a reservation under another scope takes the key over
reserveIdempotencyKeyRescoping(idemTable, today, key, scope) ==
  LET fresh == [scope |-> scope, status |-> "reserved", ref_id |-> 0, created_at |-> today]
      exists == idemTable[key]
  IN
  IF ~ValidKey(key) THEN [ok |-> FALSE, idem |-> idemTable]
  ELSE IF exists = NoRow THEN [ok |-> TRUE, idem |-> [idemTable EXCEPT ![key] = fresh]]
  ELSE IF exists.scope # scope THEN [ok |-> TRUE, idem |-> [idemTable EXCEPT ![key] = fresh]]
  ELSE IF exists.status = "reserved" /\ today - exists.created_at > STALE_AGE
    THEN [ok |-> TRUE, idem |-> [idemTable EXCEPT ![key] = fresh]]
  ELSE [ok |-> TRUE, idem |-> idemTable]

\* mutant for C22: a key is reclaimed whatever its status
reserveIdempotencyKeyAnyStatus(idemTable, today, key, scope) ==
  LET fresh == [scope |-> scope, status |-> "reserved", ref_id |-> 0, created_at |-> today]
      exists == idemTable[key]
  IN
  IF ~ValidKey(key) THEN [ok |-> FALSE, idem |-> idemTable]
  ELSE IF exists = NoRow THEN [ok |-> TRUE, idem |-> [idemTable EXCEPT ![key] = fresh]]
  ELSE IF exists.scope # scope THEN [ok |-> FALSE, idem |-> idemTable]
  ELSE IF today - exists.created_at > STALE_AGE
    THEN [ok |-> TRUE, idem |-> [idemTable EXCEPT ![key] = fresh]]
  ELSE [ok |-> TRUE, idem |-> idemTable]

\* idempotency.ts reserveIdempotencyKey: [ok, idem]; ok = FALSE is the thrown
\* ERR_INVALID_PARAMS
reserveIdempotencyKey(idemTable, today, key, scope) ==
  LET fresh == [scope |-> scope, status |-> "reserved", ref_id |-> 0, created_at |-> today]
      exists == idemTable[key]
  IN
  IF ~ValidKey(key) THEN [ok |-> FALSE, idem |-> idemTable]
  ELSE IF exists = NoRow THEN [ok |-> TRUE, idem |-> [idemTable EXCEPT ![key] = fresh]]
  ELSE IF exists.scope # scope THEN [ok |-> FALSE, idem |-> idemTable]
  ELSE IF exists.status = "reserved" /\ today - exists.created_at > STALE_AGE
    THEN [ok |-> TRUE, idem |-> [idemTable EXCEPT ![key] = fresh]]
  ELSE [ok |-> TRUE, idem |-> idemTable]

\* mutant for C9: the row is inserted already marked broadcasted
createPendingAsBroadcasted(txId, today, walletId, kind, token, amount, toAddress, key) ==
  [ tx_id |-> txId, wallet_id |-> walletId, kind |-> kind, status |-> "broadcasted",
    token |-> token, amount |-> amount, to_address |-> toAddress, tx_hash |-> 0,
    provider_order_id |-> UNDEFINED, idempotency_key |-> key,
    meta |-> [src |-> "request", kind |-> kind, size |-> amount],
    created_at |-> today ]

\* tx-service.ts createPendingProviderOperation: the inserted row
createPendingProviderOperation(txId, today, walletId, kind, token, amount, toAddress, key) ==
  [ tx_id |-> txId, wallet_id |-> walletId, kind |-> kind, status |-> "pending",
    token |-> token, amount |-> amount, to_address |-> toAddress, tx_hash |-> 0,
    provider_order_id |-> UNDEFINED, idempotency_key |-> key,
    meta |-> [src |-> "request", kind |-> kind, size |-> amount],
    created_at |-> today ]

\* UPDATE operations SET status=? WHERE tx_id=?
SetStatus(opsTable, txId, status) ==
  { IF o.tx_id = txId THEN [o EXCEPT !.status = status] ELSE o : o \in opsTable }

\* UPDATE operations SET status=?, <field>=? WHERE tx_id=?
UpdateOperation(opsTable, txId, status, field, value) ==
  { IF o.tx_id = txId THEN [o EXCEPT !.status = status, ![field] = value] ELSE o
    : o \in opsTable }

\* UPDATE idempotency_keys SET ref_id=?, status='completed' WHERE key=?
CompleteKey(idemTable, key, txId) ==
  IF idemTable[key] = NoRow THEN idemTable
  ELSE [idemTable EXCEPT ![key].ref_id = txId, ![key].status = "completed"]

\* tx-service.ts finalizeProviderOperation (and executeSend's broadcasted
\* transaction): both updates in one transaction
finalizeProviderOperation(opsTable, idemTable, txId, status, field, value, key) ==
  [ ops |-> UpdateOperation(opsTable, txId, status, field, value),
    idem |-> CompleteKey(idemTable, key, txId) ]

(* ----------------------------- audit log ------------------------------- *)
ZeroHash == [zero |-> TRUE]

\* sha256 over the concatenated fields, idealized as its preimage
sha256(prevHash, id, action, request, decision, createdAt) ==
  [ prev |-> prevHash, id |-> id, action |-> action, request |-> request,
    decision |-> decision, created_at |-> createdAt ]

\* mutant for C11: the predecessor's hash is never read
lastEntryHashZero(log) == ZeroHash

\* SELECT entry_hash FROM audit_logs ORDER BY rowid DESC LIMIT 1, or 64 zeros
lastEntryHash(log) ==
  IF Len(log) = 0 THEN ZeroHash ELSE log[Len(log)].entry_hash

\* the INSERT of logAudit: the log with the new entry appended; the uuid is
\* idealized as the ordinal of the entry
insertAudit(log, prevHash, createdAt, walletId, action, request, decision, result, errorCode) ==
  LET id == Len(log) + 1 IN
  Append(log,
    [ id |-> id, wallet_id |-> walletId, action |-> action, request |-> request,
      decision |-> decision, result |-> result, error_code |-> errorCode,
      prev_hash |-> prevHash,
      entry_hash |-> sha256(prevHash, id, action, request, decision, createdAt),
      created_at |-> createdAt ])

\* audit-service.ts logAudit run while the caller holds the write lock
logAudit(log, today, walletId, action, request, decision, result, errorCode) ==
  insertAudit(log, lastEntryHash(log), today, walletId, action, request,
              decision, result, errorCode)

\* mutant for C12: the INSERT goes through on a stale read snapshot
canUpgradeAlways(snapshot, current) == TRUE

\* SQLite in WAL mode: a deferred transaction that has read may start to
\* write only if no other connection committed since its read snapshot;
\* otherwise the statement fails with SQLITE_BUSY_SNAPSHOT
canUpgrade(snapshot, current) == snapshot = current

(* ------------------------------- state --------------------------------- *)
VARIABLES
  now,        \* current UTC day
  policies,   \* policies table: wallet -> row
  ops,        \* operations table
  idem,       \* idempotency_keys table: key -> row
  audit,      \* audit_logs table in rowid order
  nextTx,     \* number of tx ids generated so far (uuid source)
  proc,       \* per process: position and locals of the command it runs
  ext,        \* history: accepted external calls
  intents,    \* history: decide transactions that committed a pending row
  invocations, \* number of processes started so far
  call,       \* a direct call of one function: its input and its output
  session     \* session.json, session-token, AW_UNLOCK_TOKEN and the clock

vars == <<now, policies, ops, idem, audit, nextTx, proc, ext, intents, invocations,
          call, session>>

NoSnap == [taken |-> FALSE]
NoCall == [fn |-> "none"]

IdleProc ==
  [ pc |-> "idle", cmd |-> NONE, wallet |-> NONE, key |-> NONE,
    token |-> NONE, amount |-> 0, to |-> NONE, policy |-> NoRow, fresh |-> FALSE,
    after |-> {}, atomic |-> NONE, prior |-> NONE, decision |-> NONE, txId |-> 0,
    extCall |-> NONE, resp |-> NoResult, txHash |-> 0, finalStatus |-> NONE,
    code |-> NONE, result |-> NoResult, snap |-> NoSnap,
    dry |-> FALSE, raw |-> NoResult, crashedAt |-> NONE ]

\* the tables after aw init, no command running
InitTables ==
  /\ now = 0
  /\ ops = {}
  /\ idem = [k \in Keys |-> NoRow]
  /\ audit = <<>>
  /\ nextTx = 0
  /\ proc = [p \in Procs |-> IdleProc]
  /\ ext = {}
  /\ intents = {}
  /\ invocations = 0

\* the store after aw init, wallet create, policy set and aw unlock
InitStore ==
  /\ InitTables
  /\ policies \in [Wallets -> PolicyRows]
  /\ session = UnlockedSession

Init ==
  /\ InitStore
  /\ call = NoCall

scopeOf(cmd) ==
  CASE cmd = "send" -> "tx_send"
    [] cmd = "buy"  -> "predict_buy"
    [] cmd = "sell" -> "predict_sell"

kindOf(cmd) ==
  CASE cmd = "send" -> "send"
    [] cmd = "buy"  -> "predict_buy"
    [] cmd = "sell" -> "predict_sell"

actionOf(cmd) ==
  CASE cmd = "send" -> "tx.send"
    [] cmd = "buy"  -> "predict.buy"
    [] cmd = "sell" -> "predict.sell"
    [] OTHER        -> cmd

\* what the audit entry's request_json identifies: { walletId, ...opts }
requestOf(q) ==
  [ walletId |-> q.wallet, cmd |-> q.cmd, key |-> q.key, token |-> q.token,
    amount |-> q.amount, to |-> q.to ]

(* --------------------------- command entry ----------------------------- *)
\* process p is the p-th invocation to start
CanStart(p) ==
  /\ proc[p].pc = "idle"
  /\ p = invocations + 1

\* history: the invocations that had ended, by returning or by being
\* killed, when this one started
Returned == { q \in Procs : proc[q].pc \in {"done", "crashed"} }

\* locals of a gated command after validation and getPolicy, before the
\* decide transaction
Started(cmd, walletId, key, token, amount, to) ==
  [ IdleProc EXCEPT
      !.pc = "decide", !.cmd = cmd, !.wallet = walletId,
      !.key = key, !.token = token, !.amount = amount, !.to = to,
      !.policy = getPolicy(policies, walletId),
      !.fresh = (idem[key] = NoRow /\ getOperationByIdempotencyKey(ops, key) = {}),
      !.after = Returned ]

\* the raw arguments a command was invoked with
rawOf(cmd, rawToken, to, size, price) ==
  IF cmd = "send" THEN [token |-> rawToken, to |-> to, size |-> size, price |-> 1]
  ELSE IF cmd = "buy" THEN [token |-> "USDC", to |-> NONE, size |-> size, price |-> price]
  ELSE [token |-> "USDC", to |-> NONE, size |-> size, price |-> 1]

\* the validation of a gated command's arguments: tx.ts 20-26, poly.ts
\* 32-33 and 149; FALSE is the thrown ERR_INVALID_PARAMS
validArgs(cmd, rawToken, to, size, price) ==
  IF cmd = "send"
    THEN /\ canonicalToken(rawToken) # "invalid"
         /\ isAddress(to)
         /\ requirePositiveNumber(size)
  ELSE IF cmd = "buy"
    THEN requirePositiveNumber(size) /\ requirePositiveNumber(price)
  ELSE requirePositiveNumber(size)

\* txSendCommand up to the decide transaction
SendStart(p, walletId, key, rawToken, amount, to) ==
  /\ CanStart(p)
  /\ isSessionValid(session)
  /\ validArgs("send", rawToken, to, amount, 1)
  /\ proc' = [proc EXCEPT ![p] =
                [ Started("send", walletId, key, canonicalToken(rawToken), amount, to)
                    EXCEPT !.raw = rawOf("send", rawToken, to, amount, 1) ]]
  /\ invocations' = invocations + 1
  /\ UNCHANGED <<call, session, now, policies, ops, idem, audit, nextTx, ext, intents>>

\* polyBuyCommand up to the decide transaction: amount = size * price
BuyStart(p, walletId, key, size, price) ==
  /\ CanStart(p)
  /\ isSessionValid(session)
  /\ validArgs("buy", "USDC", NONE, size, price)
  /\ proc' = [proc EXCEPT ![p] =
                [ Started("buy", walletId, key, "USDC", size * price, NONE)
                    EXCEPT !.raw = rawOf("buy", "USDC", NONE, size, price) ]]
  /\ invocations' = invocations + 1
  /\ UNCHANGED <<call, session, now, policies, ops, idem, audit, nextTx, ext, intents>>

\* polySellCommand up to the decide transaction: amount = size
SellStart(p, walletId, key, size) ==
  /\ CanStart(p)
  /\ isSessionValid(session)
  /\ validArgs("sell", "USDC", NONE, size, 1)
  /\ proc' = [proc EXCEPT ![p] =
                [ Started("sell", walletId, key, "USDC", size, NONE)
                    EXCEPT !.raw = rawOf("sell", "USDC", NONE, size, 1) ]]
  /\ invocations' = invocations + 1
  /\ UNCHANGED <<call, session, now, policies, ops, idem, audit, nextTx, ext, intents>>

\* polyCtfSplit/Merge/Redeem, polyApproveSet, polyCancel up to the adapter
\* call: session check and wallet lookup only
UngatedStart(p, cmd, walletId) ==
  /\ CanStart(p)
  /\ cmd \in UngatedCmds
  /\ isSessionValid(session)
  /\ proc' = [proc EXCEPT ![p] =
                [IdleProc EXCEPT !.pc = "exec", !.cmd = cmd, !.wallet = walletId,
                                 !.after = Returned]]
  /\ invocations' = invocations + 1
  /\ UNCHANGED <<call, session, now, policies, ops, idem, audit, nextTx, ext, intents>>

\* a command that requires an unlocked session is run without one:
\* ERR_NEED_UNLOCK is thrown right after assertInitialized
NeedUnlock(p, cmd, walletId, dryRun) ==
  /\ CanStart(p)
  /\ cmd \in GatedCmds \cup UngatedCmds \cup {"policy_set"}
  /\ ~isSessionValid(session)
  /\ proc' = [proc EXCEPT ![p] =
                [IdleProc EXCEPT !.pc = "done", !.cmd = cmd, !.wallet = walletId,
                                 !.dry = dryRun, !.code = "ERR_NEED_UNLOCK",
                                 !.after = Returned]]
  /\ invocations' = invocations + 1
  /\ UNCHANGED <<call, session, now, policies, ops, idem, audit, nextTx, ext, intents>>

\* txSendCommand, polyBuyCommand or polySellCommand invoked with an argument
\* that fails validation
InvalidParams(p, cmd, walletId, key, rawToken, to, size, price) ==
  /\ CanStart(p)
  /\ cmd \in GatedCmds
  /\ isSessionValid(session)
  /\ ~validArgs(cmd, rawToken, to, size, price)
  /\ proc' = [proc EXCEPT ![p] =
                [IdleProc EXCEPT !.pc = "done", !.cmd = cmd, !.wallet = walletId,
                                 !.key = key,
                                 !.raw = rawOf(cmd, rawToken, to, size, price),
                                 !.code = "ERR_INVALID_PARAMS", !.after = Returned]]
  /\ invocations' = invocations + 1
  /\ UNCHANGED <<call, session, now, policies, ops, idem, audit, nextTx, ext, intents>>

\* mutant for C28: a dry run that is denied is logged as a denial
DryRunAudited(p, cmd, walletId, key, rawToken, to, size, price) ==
  LET token == IF cmd = "send" THEN canonicalToken(rawToken) ELSE "USDC"
      amount == IF cmd = "buy" THEN size * price ELSE size
      toAddress == IF cmd = "send" THEN to ELSE NONE
      policy == getPolicy(policies, walletId)
      stats == dailySpendStats(ops, now, walletId, token)
      decision == evaluatePolicy(policy, token, amount, toAddress, stats, cmd = "sell")
      allowed == decision.status = "allowed"
  IN
  /\ CanStart(p)
  /\ cmd \in GatedCmds
  /\ isSessionValid(session)
  /\ validArgs(cmd, rawToken, to, size, price)
  /\ proc' = [proc EXCEPT ![p] =
                [IdleProc EXCEPT !.pc = "done", !.cmd = cmd, !.wallet = walletId,
                                 !.key = key, !.token = token, !.amount = amount,
                                 !.to = toAddress, !.policy = policy, !.dry = TRUE,
                                 !.raw = rawOf(cmd, rawToken, to, size, price),
                                 !.decision = decision.status, !.code = decision.code,
                                 !.result = IF allowed THEN [status |-> "dry_run"]
                                                       ELSE NoResult,
                                 !.after = Returned]]
  /\ audit' = IF allowed THEN audit
              ELSE logAudit(audit, now, walletId, actionOf(cmd), NoResult, "denied",
                            NoResult, decision.code)
  /\ session' = IF allowed THEN touchSession(session) ELSE session
  /\ invocations' = invocations + 1
  /\ UNCHANGED <<call, now, policies, ops, idem, nextTx, ext, intents>>

\* txSendCommand, polyBuyCommand or polySellCommand with --dry-run: the
\* policy is evaluated on the current ledger and the command returns
DryRun(p, cmd, walletId, key, rawToken, to, size, price) ==
  LET token == IF cmd = "send" THEN canonicalToken(rawToken) ELSE "USDC"
      amount == IF cmd = "buy" THEN size * price ELSE size
      toAddress == IF cmd = "send" THEN to ELSE NONE
      policy == getPolicy(policies, walletId)
      stats == dailySpendStats(ops, now, walletId, token)
      decision == evaluatePolicy(policy, token, amount, toAddress, stats, cmd = "sell")
      allowed == decision.status = "allowed"
  IN
  /\ CanStart(p)
  /\ cmd \in GatedCmds
  /\ isSessionValid(session)
  /\ validArgs(cmd, rawToken, to, size, price)
  /\ proc' = [proc EXCEPT ![p] =
                [IdleProc EXCEPT !.pc = "done", !.cmd = cmd, !.wallet = walletId,
                                 !.key = key, !.token = token, !.amount = amount,
                                 !.to = toAddress, !.policy = policy, !.dry = TRUE,
                                 !.raw = rawOf(cmd, rawToken, to, size, price),
                                 !.decision = decision.status, !.code = decision.code,
                                 !.result = IF allowed THEN [status |-> "dry_run"]
                                                       ELSE NoResult,
                                 !.after = Returned]]
  /\ session' = IF allowed THEN touchSession(session) ELSE session
  /\ invocations' = invocations + 1
  /\ UNCHANGED <<call, now, policies, ops, idem, audit, nextTx, ext, intents>>

\* aw keychain status: a command that needs no session and writes nothing;
\* runCommand touches the session when it returns
KeychainStatus(p) ==
  /\ CanStart(p)
  /\ proc' = [proc EXCEPT ![p] =
                [IdleProc EXCEPT !.pc = "done", !.cmd = "keychain_status",
                                 !.result = [done |-> TRUE], !.after = Returned]]
  /\ session' = touchSession(session)
  /\ invocations' = invocations + 1
  /\ UNCHANGED <<call, now, policies, ops, idem, audit, nextTx, ext, intents>>

\* unlockCommand with the right master password, up to its logAudit: a new
\* session is created with a random token
UnlockStart(p, token) ==
  /\ CanStart(p)
  /\ session' = createSession(session, token, SESSION_TTL_MINUTES)
  /\ proc' = [proc EXCEPT ![p] =
                [IdleProc EXCEPT !.pc = "audit", !.cmd = "unlock", !.after = Returned]]
  /\ invocations' = invocations + 1
  /\ UNCHANGED <<call, now, policies, ops, idem, audit, nextTx, ext, intents>>

\* aw lock up to its logAudit: the session files are removed
LockStart(p) ==
  /\ CanStart(p)
  /\ session' = clearSession(session)
  /\ proc' = [proc EXCEPT ![p] =
                [IdleProc EXCEPT !.pc = "audit", !.cmd = "lock", !.after = Returned]]
  /\ invocations' = invocations + 1
  /\ UNCHANGED <<call, now, policies, ops, idem, audit, nextTx, ext, intents>>

\* policySetCommand up to its logAudit: the options given replace the
\* fields of the wallet's current policy; an option that fails validation
\* ends the command before the upsert
PolicySet(p, walletId, opts) ==
  LET existing == getPolicy(policies, walletId)
      given(f) == f \in opts.fields
      valid == /\ opts.fields # {}
               /\ given("limitDaily") => requirePositiveNumber(opts.limitDaily)
               /\ given("limitPerTx") => requirePositiveNumber(opts.limitPerTx)
               /\ given("requireApprovalAbove") =>
                    requirePositiveNumber(opts.requireApprovalAbove)
               /\ given("maxTxPerDay") => requirePositiveInt(opts.maxTxPerDay, 10000)
               /\ given("allowedAddresses") =>
                    \A a \in SeqToSet(opts.allowedAddresses) : isAddress(a)
      policy == [ daily_limit |-> IF given("limitDaily") THEN opts.limitDaily
                                  ELSE existing.daily_limit,
                  per_tx_limit |-> IF given("limitPerTx") THEN opts.limitPerTx
                                   ELSE existing.per_tx_limit,
                  max_tx_per_day |-> IF given("maxTxPerDay") THEN opts.maxTxPerDay
                                     ELSE existing.max_tx_per_day,
                  allowed_tokens |->
                    IF given("allowedTokens")
                      THEN [ i \in 1..Len(opts.allowedTokens) |->
                               normalizeToken(opts.allowedTokens[i]) ]
                      ELSE existing.allowed_tokens,
                  allowed_addresses |-> IF given("allowedAddresses")
                                          THEN opts.allowedAddresses
                                          ELSE existing.allowed_addresses,
                  require_approval_above |->
                    IF given("requireApprovalAbove")
                      THEN (IF opts.requireApprovalAbove = 0 THEN NULL
                            ELSE opts.requireApprovalAbove)
                      ELSE existing.require_approval_above ]
  IN
  /\ CanStart(p)
  /\ isSessionValid(session)
  /\ policies' = IF valid THEN upsertPolicy(policies, walletId, policy) ELSE policies
  /\ proc' = [proc EXCEPT ![p] =
                [IdleProc EXCEPT !.pc = IF valid THEN "audit" ELSE "done",
                                 !.cmd = "policy_set", !.wallet = walletId,
                                 !.code = IF valid THEN NONE ELSE "ERR_INVALID_PARAMS",
                                 !.after = Returned]]
  /\ invocations' = invocations + 1
  /\ UNCHANGED <<call, session, now, ops, idem, audit, nextTx, ext, intents>>

\* time passes on the session clock
Elapse(minutes) ==
  /\ session.time + minutes <= MaxClock
  /\ session' = [session EXCEPT !.time = @ + minutes]
  /\ UNCHANGED <<call, now, policies, ops, idem, audit, nextTx, proc, ext, intents, invocations>>

(* ------------------------- decide transaction -------------------------- *)
\* mutant for C5: only a confirmed operation is replayed
isReplayOnlyConfirmed(existing) == existing.status = "confirmed"

\* mutant for C15: a pending operation is replayed, only a failed one retried
isReplayUnlessFailed(existing) == existing.status # "failed"

\* tx.ts / poly.ts: an existing operation is replayed unless failed or pending
isReplay(existing) == existing.status # "failed" /\ existing.status # "pending"

\* the projection of an existing operation that a replay returns
replayResult(cmd, existing) ==
  IF cmd = "send"
    THEN [ tx_id |-> existing.tx_id, tx_hash |-> existing.tx_hash,
           status |-> existing.status, token |-> existing.token,
           amount |-> existing.amount, to |-> existing.to_address ]
    ELSE [ tx_id |-> existing.tx_id, provider_order_id |-> existing.provider_order_id,
           provider_status |-> existing.status, order |-> existing.meta ]

\* mutant for C37: the writes made before the throw are committed
transactionCommitsOnThrow(before, after, threw) == after

\* better-sqlite3 db.transaction(fn): a throw inside fn rolls every write of
\* fn back, nested transactions (logAudit) included
transaction(before, after, threw) == IF threw THEN before ELSE after

\* the body of the decide transaction of txSendCommand, polyBuyCommand and
\* polySellCommand, run on the tables as they are when the write lock is held
decideBody(q, db) ==
  LET scope == scopeOf(q.cmd)
      r1 == reserveIdempotencyKey(db.idem, db.now, q.key, scope)
      found == getOperationByIdempotencyKey(db.ops, q.key)
      existing == CHOOSE o \in found : TRUE
      retry == found # {} /\ ~isReplay(existing)
      ops1 == IF retry THEN db.ops \ {existing} ELSE db.ops
      idem1 == IF retry
                 THEN reserveIdempotencyKey([r1.idem EXCEPT ![q.key] = NoRow],
                                            db.now, q.key, scope).idem
                 ELSE r1.idem
      stats == dailySpendStats(ops1, db.now, q.wallet, q.token)
      decision == evaluatePolicy(q.policy, q.token, q.amount, q.to, stats, q.cmd = "sell")
      txId == db.nextTx + 1
      row == createPendingProviderOperation(txId, db.now, q.wallet, kindOf(q.cmd),
                                            q.token, q.amount, q.to, q.key)
      base == [ type |-> "error", code |-> "ERR_INVALID_PARAMS", threw |-> TRUE,
                ops |-> db.ops, idem |-> db.idem, audit |-> db.audit,
                nextTx |-> db.nextTx, txId |-> 0, prior |-> NONE,
                decision |-> NONE, result |-> NoResult ]
  IN
  IF ~r1.ok THEN base
  ELSE IF found # {} /\ isReplay(existing)
    THEN [ base EXCEPT !.type = "replay", !.code = NONE, !.threw = FALSE,
                       !.idem = r1.idem, !.txId = existing.tx_id,
                       !.result = replayResult(q.cmd, existing) ]
  ELSE IF decision.status # "allowed"
    THEN [ base EXCEPT !.type = "denied", !.code = decision.code, !.threw = TRUE,
                       !.ops = ops1, !.idem = idem1,
                       !.audit = logAudit(db.audit, db.now, q.wallet, actionOf(q.cmd),
                                          requestOf(q), "denied", NoResult,
                                          decision.code),
                       !.prior = IF retry THEN existing.status ELSE NONE,
                       !.decision = "denied" ]
  ELSE [ base EXCEPT !.type = "new", !.code = NONE, !.threw = FALSE,
                     !.ops = ops1 \cup {row}, !.idem = idem1, !.nextTx = txId,
                     !.txId = txId,
                     !.prior = IF retry THEN existing.status ELSE NONE,
                     !.decision = "allowed" ]

\* history: the durable intent a committed decide transaction leaves
CommittedIntents(opsTable, idemTable, key, txId) ==
  { [key |-> key, tx_id |-> txId] : o \in
      { x \in opsTable : /\ x.tx_id = txId /\ x.idempotency_key = key
                         /\ x.status = "pending"
                         /\ idemTable[key] # NoRow
                         /\ idemTable[key].status = "reserved" } }

\* db.transaction(...).immediate() of txSendCommand / polyBuyCommand /
\* polySellCommand and the branch on atomicResult that follows it
Decide(p) ==
  LET q == proc[p]
      db == [ops |-> ops, idem |-> idem, audit |-> audit, now |-> now, nextTx |-> nextTx]
      r == decideBody(q, db)
      opsC == transaction(ops, r.ops, r.threw)
      idemC == transaction(idem, r.idem, r.threw)
      auditC == transaction(audit, r.audit, r.threw)
  IN
  /\ q.pc = "decide"
  /\ ops' = opsC
  /\ idem' = idemC
  /\ audit' = auditC
  /\ nextTx' = r.nextTx
  /\ intents' = IF r.type = "new"
                  THEN intents \cup CommittedIntents(opsC, idemC, q.key, r.txId)
                  ELSE intents
  /\ proc' = [proc EXCEPT ![p] =
       [ q EXCEPT !.pc = IF r.type = "new" THEN "exec" ELSE "done",
                  !.atomic = r.type, !.code = r.code, !.txId = r.txId,
                  !.prior = r.prior, !.decision = r.decision, !.result = r.result ]]
  /\ session' = IF r.type = "replay" THEN touchSession(session) ELSE session
  /\ UNCHANGED <<call, now, policies, ext, invocations>>

(* ------------------------ execute and finalize ------------------------- *)
\* a failure before the external call: getMasterPassword, verifyChainId,
\* preflightBalanceCheck or getWalletById throws outside any try block
PreflightFail(p) ==
  /\ proc[p].pc = "exec"
  /\ proc' = [proc EXCEPT ![p].pc = "done", ![p].code = "ERR_PREFLIGHT"]
  /\ UNCHANGED <<call, session, now, policies, ops, idem, audit, nextTx, ext, intents, invocations>>

\* mutant for C14: the catch block records a success
markFailedAsConfirmed(opsTable, txId) == SetStatus(opsTable, txId, "confirmed")

\* executeSend's catch block: best-effort UPDATE to failed
markFailed(opsTable, txId) == SetStatus(opsTable, txId, "failed")

\* the external call is rejected: executeSend catches and marks the
\* operation failed; polyBuy/polySell and the ungated commands only run
\* their finally block and let the error propagate
ExternalFail(p) ==
  /\ proc[p].pc = "exec"
  /\ ops' = IF proc[p].cmd = "send" THEN markFailed(ops, proc[p].txId) ELSE ops
  /\ proc' = [proc EXCEPT ![p].pc = "done", ![p].extCall = "failed",
                          ![p].code = "ERR_EXTERNAL"]
  /\ UNCHANGED <<call, session, now, policies, idem, audit, nextTx, ext, intents, invocations>>

\* mutant for C27: the external call is made inside the transaction that
\* records its outcome
ExternalOkInTransaction(p, resp) ==
  LET q == proc[p]
      fin == IF q.cmd = "send"
               THEN finalizeProviderOperation(ops, idem, q.txId, "broadcasted",
                                              "tx_hash", q.txId, q.key)
               ELSE finalizeProviderOperation(ops, idem, q.txId, "submitted",
                      "provider_order_id",
                      IF resp.id # "" THEN resp.id ELSE UNDEFINED, q.key)
  IN
  /\ q.pc = "exec"
  /\ IF q.cmd = "send" THEN resp = NoResult ELSE resp \in ProviderResponses
  /\ ext' = ext \cup { [ inv |-> p, cmd |-> q.cmd, key |-> q.key,
                           tx_id |-> q.txId, prior |-> q.prior,
                           decision |-> q.decision ] }
  /\ ops' = IF q.cmd \in GatedCmds THEN fin.ops ELSE ops
  /\ idem' = IF q.cmd \in GatedCmds THEN fin.idem ELSE idem
  /\ proc' = [proc EXCEPT ![p] =
       [ q EXCEPT !.pc = IF q.cmd = "send" THEN "receipt" ELSE "audit",
                  !.extCall = "accepted", !.resp = resp,
                  !.txHash = IF q.cmd = "send" THEN q.txId ELSE 0 ]]
  /\ UNCHANGED <<call, session, now, policies, audit, nextTx, intents, invocations>>

\* the external call is accepted: signer.sendTransaction / contract.transfer
\* returns a hash, adapter.buy / adapter.sell / adapter.ctfSplit ... returns
ExternalOk(p, resp) ==
  LET q == proc[p] IN
  /\ q.pc = "exec"
  /\ IF q.cmd = "send" THEN resp = NoResult ELSE resp \in ProviderResponses
  /\ ext' = ext \cup { [ inv |-> p, cmd |-> q.cmd, key |-> q.key,
                           tx_id |-> q.txId, prior |-> q.prior,
                           decision |-> q.decision ] }
  /\ proc' = [proc EXCEPT ![p] =
       [ q EXCEPT !.pc = IF q.cmd \in GatedCmds THEN "finalize" ELSE "audit",
                  !.extCall = "accepted", !.resp = resp,
                  !.txHash = IF q.cmd = "send" THEN q.txId ELSE 0 ]]
  /\ UNCHANGED <<call, session, now, policies, ops, idem, audit, nextTx, intents, invocations>>

\* executeSend's broadcasted transaction / finalizeProviderOperation
Finalize(p) ==
  LET q == proc[p]
      fin == IF q.cmd = "send"
               THEN finalizeProviderOperation(ops, idem, q.txId, "broadcasted",
                                              "tx_hash", q.txHash, q.key)
               ELSE finalizeProviderOperation(ops, idem, q.txId, "submitted",
                      "provider_order_id",
                      IF q.resp.id # "" THEN q.resp.id ELSE UNDEFINED, q.key)
  IN
  /\ q.pc = "finalize"
  /\ ops' = fin.ops
  /\ idem' = fin.idem
  /\ proc' = [proc EXCEPT ![p].pc = IF q.cmd = "send" THEN "receipt" ELSE "audit"]
  /\ UNCHANGED <<call, session, now, policies, audit, nextTx, ext, intents, invocations>>

\* executeSend: provider.waitForTransaction returns a receipt, or times out
Receipt(p, r) ==
  /\ proc[p].pc = "receipt"
  /\ r \in Receipts
  /\ ops' = IF r = "timeout" THEN ops ELSE SetStatus(ops, proc[p].txId, r)
  /\ proc' = [proc EXCEPT ![p].pc = "audit",
                          ![p].finalStatus = IF r = "timeout" THEN "broadcasted" ELSE r]
  /\ UNCHANGED <<call, session, now, policies, idem, audit, nextTx, ext, intents, invocations>>

\* the result a command returns after its external call was accepted
newResult(q) ==
  IF q.cmd = "send"
    THEN [ tx_id |-> q.txId, tx_hash |-> q.txHash, status |-> q.finalStatus,
           token |-> q.token, amount |-> q.amount, to |-> q.to ]
  ELSE IF q.cmd \in GatedCmds
    THEN [ tx_id |-> q.txId, provider_order_id |-> q.resp.id,
           provider_status |-> q.resp.status,
           order |-> [src |-> "provider", id |-> q.resp.id, status |-> q.resp.status] ]
  ELSE [ done |-> TRUE ]

\* the closing logAudit of a command up to its SELECT: the timestamp is
\* taken, the deferred transaction begins and reads the last entry_hash
AuditBegin(p) ==
  /\ proc[p].pc = "audit"
  /\ proc' = [proc EXCEPT ![p].pc = "insert",
                          ![p].snap = [ taken |-> TRUE, db |-> <<policies, ops, idem, audit>>,
                                        prev |-> lastEntryHash(audit), at |-> now ]]
  /\ UNCHANGED <<call, session, now, policies, ops, idem, audit, nextTx, ext, intents, invocations>>

\* mutant for C25: a failed INSERT is caught and the command returns its
\* result
AuditSentSwallowing(p) ==
  LET q == proc[p]
      ok == canUpgrade(q.snap.db, <<policies, ops, idem, audit>>)
  IN
  /\ q.pc = "insert"
  /\ audit' = IF ok
                THEN insertAudit(audit, q.snap.prev, q.snap.at, q.wallet,
                                 actionOf(q.cmd), requestOf(q),
                                 IF q.cmd \in GatedCmds THEN "sent" ELSE "ok",
                                 newResult(q), NONE)
                ELSE audit
  /\ proc' = [proc EXCEPT ![p] =
       [ q EXCEPT !.pc = "done", !.snap = NoSnap, !.result = newResult(q) ]]
  /\ session' = touchSession(session)
  /\ UNCHANGED <<call, now, policies, ops, idem, nextTx, ext, intents, invocations>>

\* the closing logAudit of a command from its INSERT (decision sent, or ok
\* for the ungated commands) and the command's return; a failed INSERT
\* propagates as the command's error
AuditSent(p) ==
  LET q == proc[p]
      ok == canUpgrade(q.snap.db, <<policies, ops, idem, audit>>)
  IN
  /\ q.pc = "insert"
  /\ audit' = IF ok
                THEN insertAudit(audit, q.snap.prev, q.snap.at, q.wallet,
                                 actionOf(q.cmd), requestOf(q),
                                 IF q.cmd \in GatedCmds THEN "sent" ELSE "ok",
                                 newResult(q), NONE)
                ELSE audit
  /\ proc' = [proc EXCEPT ![p] =
       [ q EXCEPT !.pc = "done", !.snap = NoSnap,
                  !.result = IF ok THEN newResult(q) ELSE NoResult,
                  !.code = IF ok THEN q.code ELSE "SQLITE_BUSY_SNAPSHOT" ]]
  /\ session' = IF ok THEN touchSession(session) ELSE session
  /\ UNCHANGED <<call, now, policies, ops, idem, nextTx, ext, intents, invocations>>

\* the OS process of a command is killed between two of its steps: nothing
\* it has committed is undone, an open transaction is rolled back by SQLite
\* and none of its remaining code runs
Crash(p) ==
  /\ proc[p].pc \in {"decide", "exec", "finalize", "receipt", "audit", "insert"}
  /\ proc' = [proc EXCEPT ![p].pc = "crashed", ![p].crashedAt = proc[p].pc,
                          ![p].snap = NoSnap]
  /\ UNCHANGED <<call, session, now, policies, ops, idem, audit, nextTx, ext, intents, invocations>>

\* the wall clock moves to the next UTC day
Tick ==
  /\ now < MaxTime
  /\ now' = now + 1
  /\ UNCHANGED <<call, session, policies, ops, idem, audit, nextTx, proc, ext, intents, invocations>>

Next ==
  \/ \E p \in Procs, w \in Wallets, k \in Keys, t \in RawTokens, a \in Amounts,
        to \in Addresses : SendStart(p, w, k, t, a, to)
  \/ \E p \in Procs, w \in Wallets, k \in Keys, a \in Amounts, pr \in Prices :
        BuyStart(p, w, k, a, pr)
  \/ \E p \in Procs, w \in Wallets, k \in Keys, a \in Amounts : SellStart(p, w, k, a)
  \/ \E p \in Procs, c \in UngatedCmds, w \in Wallets : UngatedStart(p, c, w)
  \/ \E p \in Procs : Decide(p)
  \/ \E p \in Procs : PreflightFail(p)
  \/ \E p \in Procs : ExternalFail(p)
  \/ \E p \in Procs, r \in ProviderResponses \cup {NoResult} : ExternalOk(p, r)
  \/ \E p \in Procs : Finalize(p)
  \/ \E p \in Procs, r \in Receipts : Receipt(p, r)
  \/ \E p \in Procs : AuditBegin(p)
  \/ \E p \in Procs : AuditSent(p)
  \/ Tick

Spec == Init /\ [][Next]_vars

\* The gated commands racing on one idempotency key with one request each:
\* the executions the idempotency contract is about, on a fixed clock.
CoreKeys == {"k1"}

CoreNext ==
  \/ \E p \in Procs, w \in Wallets, k \in CoreKeys, to \in Addresses :
        SendStart(p, w, k, "USDC", 2 * TOKEN, to)
  \/ \E p \in Procs, w \in Wallets, k \in CoreKeys : BuyStart(p, w, k, 3 * TOKEN, 1)
  \/ \E p \in Procs, w \in Wallets, k \in CoreKeys : SellStart(p, w, k, 3 * TOKEN)
  \/ \E p \in Procs : Decide(p)
  \/ \E p \in Procs : PreflightFail(p)
  \/ \E p \in Procs : ExternalFail(p)
  \/ \E p \in Procs, r \in {[id |-> "ord1", status |-> "live"], NoResult} :
        ExternalOk(p, r)
  \/ \E p \in Procs : Finalize(p)
  \/ \E p \in Procs, r \in Receipts : Receipt(p, r)
  \/ \E p \in Procs : AuditBegin(p)
  \/ \E p \in Procs : AuditSent(p)

SpecCore == Init /\ [][CoreNext]_vars

\* The gated commands racing on one key, where a process may be killed at
\* any point of its command.
CrashNext ==
  \/ CoreNext
  \/ \E p \in Procs : Crash(p)

SpecCrash == Init /\ [][CrashNext]_vars

\* The commands without a decide phase, run by separate processes: every
\* one of them ends with an audit append on the shared store.
AuditNext ==
  \/ \E p \in Procs, c \in UngatedCmds, w \in Wallets : UngatedStart(p, c, w)
  \/ \E p \in Procs : PreflightFail(p)
  \/ \E p \in Procs : ExternalFail(p)
  \/ \E p \in Procs : ExternalOk(p, [id |-> "ord1", status |-> "live"])
  \/ \E p \in Procs : AuditBegin(p)
  \/ \E p \in Procs : AuditSent(p)
  \/ Tick

SpecAudit == Init /\ [][AuditNext]_vars

\* The entry of the gated commands: the session check, the validation of
\* the arguments and the dry run, next to decide transactions of commands
\* that got through. The session is one that is valid until it expires, one
\* presented with another token, one that has expired, or none.
EntrySessions ==
  { UnlockedSession, [UnlockedSession EXCEPT !.env = "tok2"],
    createSession(NoSession, "tok1", 0), NoSession }

EntryTokens == {"usdc", "ETH"}
EntryAddresses == {"0xAA", "0xZZ"}
EntrySizes == {3 * TOKEN, 4 * TOKEN, 0}
EntryPrices == {1, NaN}

InitEntry ==
  /\ InitTables
  /\ policies \in [Wallets -> PolicyRows]
  /\ session \in EntrySessions
  /\ call = NoCall

EntryNext ==
  \/ \E p \in Procs, w \in Wallets, k \in CoreKeys, t \in EntryTokens, a \in EntrySizes,
        to \in EntryAddresses : SendStart(p, w, k, t, a, to)
  \/ \E p \in Procs, w \in Wallets, k \in CoreKeys, a \in EntrySizes, pr \in EntryPrices :
        BuyStart(p, w, k, a, pr)
  \/ \E p \in Procs, w \in Wallets, k \in CoreKeys, a \in EntrySizes : SellStart(p, w, k, a)
  \/ \E p \in Procs, c \in GatedCmds, w \in Wallets, d \in BOOLEAN : NeedUnlock(p, c, w, d)
  \/ \E p \in Procs, c \in GatedCmds, w \in Wallets, k \in CoreKeys, t \in EntryTokens,
        to \in EntryAddresses, a \in EntrySizes, pr \in EntryPrices :
        InvalidParams(p, c, w, k, t, to, a, pr)
  \/ \E p \in Procs, c \in GatedCmds, w \in Wallets, k \in CoreKeys, t \in EntryTokens,
        to \in EntryAddresses, a \in EntrySizes, pr \in EntryPrices :
        DryRun(p, c, w, k, t, to, a, pr)
  \/ \E p \in Procs : Decide(p)
  \/ Elapse(SESSION_TTL_MINUTES)

SpecEntry == InitEntry /\ [][EntryNext]_vars

\* The life of a session: aw unlock, aw lock, the passing of time, and
\* commands that do and do not require the session.
SessionEnvs ==
  { [UnlockedSession EXCEPT !.env = e] : e \in {NONE, "tok1", "tok2"} }

InitSession ==
  /\ InitTables
  /\ policies \in [Wallets -> PolicyRows]
  /\ session \in SessionEnvs
  /\ call = NoCall

SessionNext ==
  \/ \E p \in Procs : UnlockStart(p, "tok2")
  \/ \E p \in Procs : LockStart(p)
  \/ \E p \in Procs : KeychainStatus(p)
  \/ \E p \in Procs, w \in Wallets, d \in BOOLEAN : NeedUnlock(p, "sell", w, d)
  \/ \E p \in Procs, w \in Wallets, k \in CoreKeys :
        DryRun(p, "sell", w, k, "USDC", NONE, 3 * TOKEN, 1)
  \/ \E p \in Procs : AuditBegin(p)
  \/ \E p \in Procs : AuditSent(p)
  \/ \E m \in {5, SESSION_TTL_MINUTES} : Elapse(m)

SpecSession == InitSession /\ [][SessionNext]_vars

\* aw policy set next to aw send, on a wallet with or without a policy row
PolicyOpts ==
  [ fields : { {}, {"limitDaily"}, {"limitPerTx"}, {"maxTxPerDay"},
               {"requireApprovalAbove"}, {"allowedTokens", "allowedAddresses"},
               {"limitDaily", "limitPerTx", "maxTxPerDay"} },
    limitDaily : {TOKEN, 0}, limitPerTx : {2 * TOKEN}, maxTxPerDay : {1},
    requireApprovalAbove : {2 * TOKEN, 0},
    allowedTokens : {<<>>, <<"usdc.e">>}, allowedAddresses : {<<"0xAA">>} ]

InitPolicyStore ==
  /\ InitTables
  /\ policies \in [Wallets -> {NoRow, DEFAULT_POLICY} \cup PolicyRows]
  /\ session = UnlockedSession
  /\ call = NoCall

PolicyStoreNext ==
  \/ \E p \in Procs, w \in Wallets, o \in PolicyOpts : PolicySet(p, w, o)
  \/ \E p \in Procs, w \in Wallets, k \in CoreKeys, to \in Addresses :
        SendStart(p, w, k, "USDC", 2 * TOKEN, to)
  \/ \E p \in Procs : Decide(p)
  \/ \E p \in Procs : PreflightFail(p)
  \/ \E p \in Procs : AuditBegin(p)
  \/ \E p \in Procs : AuditSent(p)

SpecPolicyStore == InitPolicyStore /\ [][PolicyStoreNext]_vars

(* ------------------------ direct function calls ------------------------ *)
\* evaluatePolicy called on its own, over policies with every limit set or
\* null and amounts on and next to the limits
PolicyConfigs ==
  [ per_tx_limit : {NULL, 3 * TOKEN}, daily_limit : {NULL, 4 * TOKEN},
    max_tx_per_day : {NULL, 1},
    allowed_tokens : {<<>>, <<"USDC">>},
    allowed_addresses : {<<>>, <<"0xAA">>},
    require_approval_above : {NULL, 2 * TOKEN} ]

PolicyInputs ==
  [ policy : PolicyConfigs,
    token : {"usdc", "POL"},
    amount : {2 * TOKEN, 3 * TOKEN, 3 * TOKEN + 1, 3 * TOKEN + QUANTA},
    toAddress : {NONE, "0xaa", "0xBB"},
    stats : [ todaySpent : {0, TOKEN, TOKEN + 1, 2 * TOKEN}, todayTxCount : {0, 1} ],
    skipSpendLimits : BOOLEAN ]

InitPolicy ==
  /\ InitStore
  /\ call \in { [fn |-> "evaluatePolicy", input |-> i, output |-> NoResult]
                 : i \in PolicyInputs }

EvaluatePolicyCall ==
  /\ call.fn = "evaluatePolicy"
  /\ call.output = NoResult
  /\ call' = [call EXCEPT !.output =
                 evaluatePolicy(call.input.policy, call.input.token, call.input.amount,
                                call.input.toAddress, call.input.stats,
                                call.input.skipSpendLimits)]
  /\ UNCHANGED <<session, now, policies, ops, idem, audit, nextTx, proc, ext, intents, invocations>>

SpecPolicy == InitPolicy /\ [][EvaluatePolicyCall]_vars

\* dailySpendStats called on its own, on a ledger before and after one more
\* row is recorded in it
Statuses == {"pending", "broadcasted", "confirmed", "submitted", "filled", "failed"}

LedgerRow(txId, walletId, token, status, amount, createdAt) ==
  [ createPendingProviderOperation(txId, createdAt, walletId, "send", token, amount,
                                   "0xAA", NONE)
      EXCEPT !.status = status ]

BaseRows ==
  { LedgerRow(101, "w1", "USDC", "pending", 2 * TOKEN, 1),
    LedgerRow(102, "w1", "POL", "confirmed", 3 * TOKEN, 1),
    LedgerRow(103, "w2", "USDC", "submitted", 2 * TOKEN, 1) }

ExtraRows ==
  { LedgerRow(104, w, t, st, 3 * TOKEN, at) :
      w \in {"w1", "w2"}, t \in {"POL", "USDC", "USDC.e"}, st \in Statuses,
      at \in {0, 1} }

StatsInputs ==
  [ ledger : SUBSET BaseRows, row : ExtraRows, walletId : {"w1"},
    token : {"POL", "USDC", "USDC.e"}, today : {1} ]

InitStats ==
  /\ InitStore
  /\ call \in { [fn |-> "dailySpendStats", input |-> i, output |-> NoResult]
                 : i \in StatsInputs }

DailySpendStatsCall ==
  LET i == call.input IN
  /\ call.fn = "dailySpendStats"
  /\ call.output = NoResult
  /\ call' = [call EXCEPT !.output =
                 [ before |-> dailySpendStats(i.ledger, i.today, i.walletId, i.token),
                   after |-> dailySpendStats(i.ledger \cup {i.row}, i.today,
                                             i.walletId, i.token) ]]
  /\ UNCHANGED <<session, now, policies, ops, idem, audit, nextTx, proc, ext, intents, invocations>>

SpecStats == InitStats /\ [][DailySpendStatsCall]_vars

\* reserveIdempotencyKey called on its own, on a key that is free, reserved
\* or completed, one to four days after the row was written
ReserveRows ==
  {NoRow} \cup
  { [scope |-> sc, status |-> st, ref_id |-> IF st = "completed" THEN 7 ELSE 0,
     created_at |-> at] :
      sc \in {"tx_send", "predict_buy"}, st \in {"reserved", "completed"},
      at \in {0, 1} }

ReserveInputs ==
  [ row : ReserveRows, today : 1..(STALE_AGE + 2), key : {"k1", "not a key"},
    scope : {"tx_send", "predict_buy"} ]

InitReserve ==
  /\ InitStore
  /\ call \in { [fn |-> "reserveIdempotencyKey", input |-> i, output |-> NoResult]
                 : i \in ReserveInputs }

ReserveIdempotencyKeyCall ==
  LET i == call.input
      r == reserveIdempotencyKey([k \in {"k1"} |-> i.row], i.today, i.key, i.scope)
  IN
  /\ call.fn = "reserveIdempotencyKey"
  /\ call.output = NoResult
  /\ call' = [call EXCEPT !.output = [ok |-> r.ok, row |-> r.idem["k1"]]]
  /\ UNCHANGED <<session, now, policies, ops, idem, audit, nextTx, proc, ext, intents, invocations>>

SpecReserve == InitReserve /\ [][ReserveIdempotencyKeyCall]_vars

\* runCommand ending with each outcome of the command it runs, in both
\* output modes
RunInputs ==
  [ error : {NONE} \cup AppErrorCodes \cup RawErrors, json : BOOLEAN,
    details : {"none", "some"} ]

InitRun ==
  /\ InitStore
  /\ call \in { [fn |-> "runCommand", input |-> i, output |-> NoResult]
                 : i \in RunInputs }

RunCommandCall ==
  /\ call.fn = "runCommand"
  /\ call.output = NoResult
  /\ call' = [call EXCEPT !.output = runCommand(call.input.error)]
  /\ UNCHANGED <<session, now, policies, ops, idem, audit, nextTx, proc, ext, intents, invocations>>

SpecRun == InitRun /\ [][RunCommandCall]_vars

(* =============================== claims ================================ *)
GatedProcs == { p \in Procs : proc[p].cmd \in GatedCmds }

\* C1: for every idempotency key, the external call is accepted at most once,
\* not counting calls of attempts that replaced an attempt recorded as failed.
C1_AtMostOneExternalCall ==
  \A k \in Keys :
    Cardinality({ e \in ext : e.key = k /\ e.prior # "failed" }) <= 1

\* C2: for every wallet and token, the amounts of today's approved spending
\* requests (sends and buys that are active in the ledger) never add up to
\* more than the wallet's daily_limit.
C2_DailyCeilingHolds ==
  \A w \in Wallets : \A t \in {"POL", "USDC", "USDC.e"} :
    policies[w].daily_limit # NULL =>
      SumAmount({ o \in ops : /\ o.wallet_id = w /\ o.token = t
                               /\ o.kind \in {"send", "predict_buy"}
                               /\ o.created_at >= now
                               /\ o.status \in activeStatuses })
        <= policies[w].daily_limit

\* C3: two invocations that both start while the key is fresh, with the same
\* key and scope, end their decide phases as one "new" and one "replay", and
\* no key ever has two pending ledger rows.
C3_OneCreatedOneReplay ==
  /\ \A p, q \in GatedProcs :
       ( /\ p # q /\ proc[p].fresh /\ proc[q].fresh
         /\ proc[p].key = proc[q].key /\ proc[p].cmd = proc[q].cmd
         /\ proc[p].atomic # NONE /\ proc[q].atomic # NONE )
       => {proc[p].atomic, proc[q].atomic} = {"new", "replay"}
  /\ \A k \in Keys :
       Cardinality({ o \in ops : o.idempotency_key = k /\ o.status = "pending" }) <= 1

\* C4: every accepted external call of a signing command was preceded, in the
\* same invocation, by evaluatePolicy returning allowed.
C4_PolicyBeforeEveryCall ==
  \A e \in ext : e.decision = "allowed"

\* C5: a decide step that finds the key bound to an operation that is neither
\* pending nor failed returns a replay: policy is not evaluated, no external
\* call follows, and operations, idempotency_keys and audit_logs are unchanged.
FinalizedFor(p) ==
  /\ proc[p].pc = "decide"
  /\ idem[proc[p].key] # NoRow
  /\ idem[proc[p].key].scope = scopeOf(proc[p].cmd)
  /\ \E o \in ops : /\ o.idempotency_key = proc[p].key
                     /\ o.status \notin {"pending", "failed"}

C5_ReplayChangesNothing ==
  [][ \A p \in Procs :
        (FinalizedFor(p) /\ proc'[p] # proc[p]) =>
          /\ ops' = ops /\ idem' = idem /\ audit' = audit /\ ext' = ext
          /\ nextTx' = nextTx
          /\ proc'[p].pc = "done" /\ proc'[p].atomic = "replay"
          /\ proc'[p].decision = NONE /\ proc'[p].extCall = NONE ]_vars

C5_Witness ==
  \E p \in Procs : proc[p].pc = "done" /\ proc[p].atomic = "replay"

\* C6: when an invocation succeeded and the next invocation with the same
\* key and command starts after it returned, the second returns the same
\* result as the first, field for field.
Succeeded(q) ==
  /\ proc[q].pc = "done" /\ proc[q].atomic = "new" /\ proc[q].extCall = "accepted"
  /\ proc[q].cmd = "send" => proc[q].finalStatus # "failed"

C6_SecondResultIdentical ==
  \A p, q \in GatedProcs :
    ( /\ q \in proc[p].after /\ Succeeded(q)
      /\ proc[p].key = proc[q].key /\ proc[p].cmd = proc[q].cmd
      /\ ~ \E r \in GatedProcs : r > q /\ r < p /\ proc[r].key = proc[q].key
      /\ proc[p].pc = "done" )
    => proc[p].result = proc[q].result

\* C7: after the external call of a gated command was rejected, the
\* operation the invocation created is failed, never pending.
C7_RejectedCallMarksFailed ==
  \A p \in GatedProcs :
    proc[p].extCall = "failed" =>
      \A o \in ops : o.tx_id = proc[p].txId => o.status = "failed"

\* C8: after a gated command returned a policy denial, the audit log holds
\* an entry for that request with decision denied and the denial code.
C8_DenialIsAudited ==
  \A p \in GatedProcs :
    (proc[p].pc = "done" /\ proc[p].atomic = "denied") =>
      \E i \in 1..Len(audit) :
        /\ audit[i].decision = "denied"
        /\ audit[i].error_code = proc[p].code
        /\ audit[i].request = requestOf(proc[p])

\* C9: every accepted external call of aw send, predict buy and predict sell
\* was preceded by a committed transaction that left the key reserved and a
\* pending operation row carrying that key.
C9_IntentCommittedBeforeCall ==
  \A e \in ext :
    e.cmd \in GatedCmds => [key |-> e.key, tx_id |-> e.tx_id] \in intents

C9_Witness ==
  \E e \in ext : e.cmd \in GatedCmds /\ [key |-> e.key, tx_id |-> e.tx_id] \in intents

\* C10: a completed key's ref_id names an existing operation that carries
\* the key and is not pending, and every broadcasted, confirmed or submitted
\* operation has its key completed with ref_id equal to its tx_id.
C10_CompletedIffFinalized ==
  /\ \A k \in Keys :
       (idem[k] # NoRow /\ idem[k].status = "completed") =>
         \E o \in ops : /\ o.tx_id = idem[k].ref_id /\ o.idempotency_key = k
                        /\ o.status # "pending"
  /\ \A o \in ops :
       o.status \in {"broadcasted", "confirmed", "submitted"} =>
         /\ idem[o.idempotency_key] # NoRow
         /\ idem[o.idempotency_key].status = "completed"
         /\ idem[o.idempotency_key].ref_id = o.tx_id

\* Verification of the audit log by recomputation: the first entry's
\* prev_hash is 64 zeros, every later prev_hash is the predecessor's
\* entry_hash, and every entry_hash is the hash of the entry's stored fields.
Verifies(log) ==
  \A i \in 1..Len(log) :
    /\ log[i].prev_hash = IF i = 1 THEN ZeroHash ELSE log[i - 1].entry_hash
    /\ log[i].entry_hash = sha256(log[i].prev_hash, log[i].id, log[i].action,
                                  log[i].request, log[i].decision, log[i].created_at)

\* C11: after any sequence of audit appends the log, in insertion order,
\* starts from 64 zeros, links every entry to its predecessor's entry_hash
\* and stores entry hashes that recomputation reproduces.
C11_ChainIsLinked == Verifies(audit)

C11_Witness == Len(audit) >= 2

\* C12: under every interleaving of appends by separate processes, no two
\* committed audit entries have the same prev_hash.
C12_ChainNeverForks ==
  \A i, j \in 1..Len(audit) : i # j => audit[i].prev_hash # audit[j].prev_hash

\* two appends overlapped: one committed, the other was refused
C12_Witness ==
  /\ Len(audit) >= 1
  /\ \E p \in Procs : proc[p].pc = "done" /\ proc[p].code = "SQLITE_BUSY_SNAPSHOT"

\* C13: changing any stored field of any committed audit entry makes
\* verification by recomputation fail.
TamperValues(field) ==
  CASE field = "wallet_id"  -> {"w1", "w2"}
    [] field = "action"     -> {"tx.send", "predict.cancel"}
    [] field = "request"    -> {[walletId |-> "w2"]}
    [] field = "decision"   -> {"ok", "sent", "denied"}
    [] field = "result"     -> {NoResult, [done |-> FALSE]}
    [] field = "error_code" -> {NONE, "ERR_INTERNAL"}
    [] field = "created_at" -> {0, MaxTime + 1}

C13_EditsAreDetected ==
  \A i \in 1..Len(audit) :
    \A field \in {"wallet_id", "action", "request", "decision", "result",
                   "error_code", "created_at"} :
      \A v \in TamperValues(field) :
        v # audit[i][field] => ~Verifies([audit EXCEPT ![i][field] = v])

\* C14: an operation's status changes only along pending -> broadcasted,
\* broadcasted -> confirmed, broadcasted -> failed, pending -> failed (sends)
\* and pending -> submitted (provider orders); it becomes broadcasted only
\* after the network accepted the transaction, and a receipt wait that times
\* out or errors leaves the ledger as it is.
SendEdges ==
  { <<"pending", "broadcasted">>, <<"broadcasted", "confirmed">>,
    <<"broadcasted", "failed">>, <<"pending", "failed">> }

ProviderEdges == { <<"pending", "submitted">> }

C14_StatusEdges ==
  [][ /\ \A o \in ops : \A n \in ops' :
           (o.tx_id = n.tx_id /\ o.status # n.status) =>
             /\ <<o.status, n.status>> \in
                  (IF o.kind = "send" THEN SendEdges ELSE ProviderEdges)
             /\ n.status = "broadcasted" =>
                  \E e \in ext : e.tx_id = o.tx_id /\ e.cmd = "send"
      /\ \A p \in Procs :
           ( /\ proc[p].pc = "receipt" /\ proc'[p].pc # "receipt"
             /\ proc'[p].finalStatus = "broadcasted" ) => ops' = ops ]_vars

C14_Witness ==
  /\ \E o \in ops : o.status = "confirmed"
  /\ \E p \in Procs : proc[p].finalStatus = "confirmed"

\* C15: a decide step that finds the key bound, in the same scope, to a
\* failed or pending operation evaluates policy against statistics without
\* that operation; on approval the old row is gone, the key row is a fresh
\* reservation and exactly one new pending row carries the key; on denial the
\* command ends with the denial code. No key ever has two operation rows.
RetryFor(p) ==
  /\ proc[p].pc = "decide"
  /\ idem[proc[p].key] # NoRow
  /\ idem[proc[p].key].scope = scopeOf(proc[p].cmd)
  /\ \E o \in ops : /\ o.idempotency_key = proc[p].key
                     /\ o.status \in {"pending", "failed"}

RetryOutcome(p) ==
  LET q == proc[p]
      old == CHOOSE o \in ops : o.idempotency_key = q.key
      statsWithout == dailySpendStats(ops \ {old}, now, q.wallet, q.token)
      d == evaluatePolicy(q.policy, q.token, q.amount, q.to, statsWithout,
                          q.cmd = "sell")
      mine == { n \in ops' : n.idempotency_key = q.key }
  IN
  IF d.status = "allowed"
    THEN /\ proc'[p].atomic = "new" /\ proc'[p].pc = "exec"
         /\ \A n \in ops' : n.tx_id # old.tx_id
         /\ Cardinality(mine) = 1
         /\ \A n \in mine : /\ n.status = "pending" /\ n.tx_id = proc'[p].txId
                             /\ n.amount = q.amount /\ n.created_at = now
         /\ ops' \ mine = ops \ {old}
         /\ idem'[q.key] = [ scope |-> scopeOf(q.cmd), status |-> "reserved",
                              ref_id |-> 0, created_at |-> now ]
    ELSE /\ proc'[p].atomic = "denied" /\ proc'[p].pc = "done"
         /\ proc'[p].code = d.code

C15_RetryReplacesOperation ==
  [][ /\ \A k \in Keys : Cardinality({ o \in ops' : o.idempotency_key = k }) <= 1
      /\ \A p \in Procs :
           (RetryFor(p) /\ proc'[p] # proc[p]) => RetryOutcome(p) ]_vars

C15_Witness ==
  \E p \in Procs : /\ proc[p].atomic = "new"
                    /\ proc[p].prior \in {"pending", "failed"}

\* the direct call of evaluatePolicy has returned
PolicyReturned == call.fn = "evaluatePolicy" /\ call.output # NoResult

\* the six checks in the order the specification gives them
CheckOrder ==
  << "ERR_TOKEN_NOT_ALLOWED", "ERR_ADDRESS_NOT_ALLOWED", "ERR_PER_TX_LIMIT_EXCEEDED",
     "ERR_DAILY_LIMIT_EXCEEDED", "ERR_APPROVAL_THRESHOLD_EXCEEDED",
     "ERR_TX_COUNT_LIMIT_EXCEEDED" >>

TokenFails(i) ==
  /\ i.policy.allowed_tokens # <<>>
  /\ \A k \in 1..Len(i.policy.allowed_tokens) :
       normalizeToken(i.policy.allowed_tokens[k]) # normalizeToken(i.token)

AddressFails(i) ==
  /\ i.toAddress # NONE
  /\ i.policy.allowed_addresses # <<>>
  /\ \A k \in 1..Len(i.policy.allowed_addresses) :
       toLowerCase(i.policy.allowed_addresses[k]) # toLowerCase(i.toAddress)

TxCountFails(i) ==
  i.policy.max_tx_per_day # NULL /\ i.stats.todayTxCount + 1 > i.policy.max_tx_per_day

CheckFails(i, code) ==
  CASE code = "ERR_TOKEN_NOT_ALLOWED" -> TokenFails(i)
    [] code = "ERR_ADDRESS_NOT_ALLOWED" -> AddressFails(i)
    [] code = "ERR_PER_TX_LIMIT_EXCEEDED" ->
         /\ ~i.skipSpendLimits /\ i.policy.per_tx_limit # NULL
         /\ toMicroUnits(i.amount) > toMicroUnits(i.policy.per_tx_limit)
    [] code = "ERR_DAILY_LIMIT_EXCEEDED" ->
         /\ ~i.skipSpendLimits /\ i.policy.daily_limit # NULL
         /\ toMicroUnits(i.stats.todaySpent + i.amount) > toMicroUnits(i.policy.daily_limit)
    [] code = "ERR_APPROVAL_THRESHOLD_EXCEEDED" ->
         /\ ~i.skipSpendLimits /\ i.policy.require_approval_above # NULL
         /\ toMicroUnits(i.amount) > toMicroUnits(i.policy.require_approval_above)
    [] code = "ERR_TX_COUNT_LIMIT_EXCEEDED" -> TxCountFails(i)

Failing(i) == { k \in 1..Len(CheckOrder) : CheckFails(i, CheckOrder[k]) }

\* C16: evaluatePolicy returns the denial code of the first failing check in
\* the order token allowlist, destination allowlist, per-transaction ceiling,
\* daily ceiling, approval threshold, transaction count, and returns allowed
\* exactly when no check fails.
C16_FirstFailureWins ==
  PolicyReturned =>
    LET failing == Failing(call.input) IN
    IF failing = {}
      THEN call.output.status = "allowed"
      ELSE call.output =
             [ status |-> "denied",
               code |-> CheckOrder[CHOOSE k \in failing : \A j \in failing : k <= j] ]

C16_Witness ==
  /\ PolicyReturned
  /\ {3, 4} \subseteq Failing(call.input)
  /\ call.output.code = "ERR_PER_TX_LIMIT_EXCEEDED"

\* C17: with quantities within a quarter micro-unit of the micro-unit grid,
\* an amount equal to per_tx_limit passes the per-transaction check and one
\* micro-unit more is denied with PER_TX_LIMIT_EXCEEDED; todaySpent + amount
\* equal to daily_limit passes the daily check and one micro-unit more is
\* denied with DAILY_LIMIT_EXCEEDED.
SpendChecked(i) == ~i.skipSpendLimits /\ ~TokenFails(i) /\ ~AddressFails(i)

C17_ExactAtMicroUnits ==
  PolicyReturned =>
    LET i == call.input
        overPerTx == i.amount - i.policy.per_tx_limit
        overDaily == i.stats.todaySpent + i.amount - i.policy.daily_limit
    IN
    /\ (SpendChecked(i) /\ i.policy.per_tx_limit # NULL) =>
         /\ overPerTx \in -1..1 => call.output.code # "ERR_PER_TX_LIMIT_EXCEEDED"
         /\ overPerTx \in (QUANTA - 1)..(QUANTA + 1) =>
              call.output = [status |-> "denied", code |-> "ERR_PER_TX_LIMIT_EXCEEDED"]
    /\ ( /\ SpendChecked(i) /\ i.policy.daily_limit # NULL
          /\ (i.policy.per_tx_limit = NULL \/ overPerTx <= 1) ) =>
         /\ overDaily \in -1..1 => call.output.code # "ERR_DAILY_LIMIT_EXCEEDED"
         /\ overDaily \in (QUANTA - 1)..(QUANTA + 1) =>
              call.output = [status |-> "denied", code |-> "ERR_DAILY_LIMIT_EXCEEDED"]

\* a sum one quantum above the daily limit (0.1 on top of 0.2 against 0.3)
C17_Witness ==
  /\ PolicyReturned
  /\ call.input.policy.daily_limit # NULL
  /\ call.input.stats.todaySpent + call.input.amount = call.input.policy.daily_limit + 1
  /\ call.output.status = "allowed"

\* C18: with skipSpendLimits the result is never a per-transaction, daily or
\* approval-threshold denial; the token allowlist, the destination allowlist
\* and the transaction count still deny, in that order.
C18_SkipSpendLimits ==
  (PolicyReturned /\ call.input.skipSpendLimits) =>
    LET i == call.input IN
    /\ call.output.code \notin
         { "ERR_PER_TX_LIMIT_EXCEEDED", "ERR_DAILY_LIMIT_EXCEEDED",
           "ERR_APPROVAL_THRESHOLD_EXCEEDED" }
    /\ TokenFails(i) => call.output.code = "ERR_TOKEN_NOT_ALLOWED"
    /\ (~TokenFails(i) /\ AddressFails(i)) => call.output.code = "ERR_ADDRESS_NOT_ALLOWED"
    /\ (~TokenFails(i) /\ ~AddressFails(i) /\ TxCountFails(i)) =>
         call.output.code = "ERR_TX_COUNT_LIMIT_EXCEEDED"
    /\ (~TokenFails(i) /\ ~AddressFails(i) /\ ~TxCountFails(i)) =>
         call.output.status = "allowed"

\* a sell above every spend ceiling that is allowed
C18_Witness ==
  /\ PolicyReturned /\ call.input.skipSpendLimits
  /\ call.input.policy.per_tx_limit # NULL
  /\ call.input.amount > call.input.policy.per_tx_limit + QUANTA - 1
  /\ call.input.policy.daily_limit # NULL
  /\ call.input.stats.todaySpent + call.input.amount > call.input.policy.daily_limit + QUANTA - 1
  /\ call.output.status = "allowed"

\* the direct call of dailySpendStats has returned
StatsReturned == call.fn = "dailySpendStats" /\ call.output # NoResult

Counted(row, today) == row.created_at >= today /\ row.status \in activeStatuses

\* C19: recording an operation of another wallet changes neither todaySpent
\* nor todayTxCount; recording an operation of the wallet for another token
\* leaves todaySpent unchanged and, when it is counted, raises todayTxCount
\* by one whatever its token.
C19_SpendPerTokenCountPerWallet ==
  StatsReturned =>
    LET i == call.input
        out == call.output
    IN
    /\ (i.row.wallet_id # i.walletId \/ i.row.token # i.token) =>
         out.after.todaySpent = out.before.todaySpent
    /\ i.row.wallet_id # i.walletId => out.after.todayTxCount = out.before.todayTxCount
    /\ (i.row.wallet_id = i.walletId /\ Counted(i.row, i.today)) =>
         out.after.todayTxCount = out.before.todayTxCount + 1

C19_Witness ==
  /\ StatsReturned
  /\ call.input.row.wallet_id = call.input.walletId
  /\ call.input.row.token # call.input.token
  /\ Counted(call.input.row, call.input.today)
  /\ call.output.before.todaySpent > 0
  /\ call.output.after.todaySpent = call.output.before.todaySpent
  /\ call.output.after.todayTxCount = call.output.before.todayTxCount + 1

\* C20: an operation of the wallet recorded for the token adds its full
\* amount to todaySpent and one to todayTxCount if it was created today and
\* its status is active, and adds to neither otherwise.
C20_CountedIffTodayAndActive ==
  ( /\ StatsReturned
    /\ call.input.row.wallet_id = call.input.walletId
    /\ call.input.row.token = call.input.token ) =>
    LET i == call.input
        out == call.output
    IN
    IF Counted(i.row, i.today)
      THEN /\ out.after.todaySpent = out.before.todaySpent + i.row.amount
           /\ out.after.todayTxCount = out.before.todayTxCount + 1
      ELSE out.after = out.before


\* C21: a decide transaction that reserves an existing key under another
\* scope ends with ERR_INVALID_PARAMS and leaves the key row and the ledger
\* as they were; no step changes the scope of a key row that exists before
\* and after it.
C21_ScopeIsImmutable ==
  [][ /\ \A k \in Keys :
           (idem[k] # NoRow /\ idem'[k] # NoRow) => idem'[k].scope = idem[k].scope
      /\ \A p \in Procs :
           ( /\ proc[p].pc = "decide" /\ proc'[p].pc # "decide"
             /\ idem[proc[p].key] # NoRow
             /\ idem[proc[p].key].scope # scopeOf(proc[p].cmd) ) =>
             /\ proc'[p].pc = "done"
             /\ proc'[p].code = "ERR_INVALID_PARAMS"
             /\ idem' = idem /\ ops' = ops /\ audit' = audit
    ]_vars

\* a command was rejected for the scope of a key that another command holds
C21_Witness ==
  \E p \in Procs :
    /\ proc[p].pc = "done" /\ proc[p].atomic = "error"
    /\ proc[p].code = "ERR_INVALID_PARAMS"
    /\ idem[proc[p].key] # NoRow
    /\ idem[proc[p].key].scope # scopeOf(proc[p].cmd)

\* the direct call of reserveIdempotencyKey has returned
ReserveReturned == call.fn = "reserveIdempotencyKey" /\ call.output # NoResult

\* C22: reserving an existing key under its own scope replaces the row by a
\* reserved row created now if the row is reserved and older than 48 hours;
\* otherwise the call succeeds and the row is as it was.
C22_StaleReservedIsReclaimed ==
  ( /\ ReserveReturned /\ call.input.key = "k1"
    /\ call.input.row # NoRow /\ call.input.row.scope = call.input.scope ) =>
    LET i == call.input IN
    /\ call.output.ok
    /\ IF i.row.status = "reserved" /\ i.today - i.row.created_at > STALE_AGE
         THEN call.output.row = [ scope |-> i.scope, status |-> "reserved",
                                  ref_id |-> 0, created_at |-> i.today ]
         ELSE call.output.row = i.row

\* a reserved key three days old is reserved anew
C22_Witness ==
  /\ ReserveReturned /\ call.input.key = "k1"
  /\ call.input.row # NoRow /\ call.input.row.scope = call.input.scope
  /\ call.input.row.status = "reserved"
  /\ call.output.ok
  /\ call.output.row.created_at = call.input.today
  /\ call.output.row # call.input.row

\* C23: a command that reads the policy of a wallet without a policies row
\* gets daily_limit 500, per_tx_limit 100, max_tx_per_day 20 and the tokens
\* POL, USDC and USDC.e; no command ever gets a policy whose daily, per-tx
\* and count limits are all null.
C23_MissingRowIsRestrictive ==
  [][ \A p \in Procs :
        (proc[p].pc = "idle" /\ proc'[p].pc = "decide") =>
          LET got == proc'[p].policy IN
          /\ policies[proc'[p].wallet] = NoRow =>
               /\ got.daily_limit = 500 * TOKEN
               /\ got.per_tx_limit = 100 * TOKEN
               /\ got.max_tx_per_day = 20
               /\ got.allowed_tokens = <<"POL", "USDC", "USDC.e">>
          /\ ~( /\ got.daily_limit = NULL /\ got.per_tx_limit = NULL
                /\ got.max_tx_per_day = NULL )
    ]_vars

\* a send was decided under the default while the wallet had no row
C23_Witness ==
  \E p \in Procs :
    /\ proc[p].cmd = "send" /\ proc[p].pc = "exec"
    /\ policies[proc[p].wallet] = NoRow
    /\ proc[p].policy.daily_limit = 500 * TOKEN

\* the session conditions of the session model: the session file exists,
\* its expiry lies in the future and the presented token hashes to the
\* stored hash
SessionOk(s) ==
  /\ s.file # NoRow
  /\ s.file.expires_at > s.time
  /\ \E t \in {"tok1", "tok2"} :
       /\ t = (IF s.env # NONE THEN s.env ELSE s.tokenFile)
       /\ s.file.token_hash = [sha256 |-> t]

TablesUnchanged == UNCHANGED <<ops, idem, audit, ext, intents, nextTx>>

\* C24: a send, buy or sell that starts while the session is not valid, dry
\* run or not, ends at once with ERR_NEED_UNLOCK and leaves the key table,
\* the operations, the audit log and the record of external calls untouched.
C24_NoSessionNoEffect ==
  [][ \A p \in Procs :
        ( /\ proc[p].pc = "idle" /\ proc'[p].pc # "idle"
          /\ proc'[p].cmd \in GatedCmds
          /\ ~SessionOk(session) ) =>
          /\ proc'[p].pc = "done"
          /\ proc'[p].code = "ERR_NEED_UNLOCK"
          /\ TablesUnchanged
    ]_vars

\* a dry run was refused on an expired session after another command had
\* written its intent
C24_Witness ==
  \E p \in Procs :
    /\ proc[p].pc = "done" /\ proc[p].code = "ERR_NEED_UNLOCK" /\ proc[p].dry
    /\ proc[p].cmd \in GatedCmds
    /\ ops # {}

\* C25: when the closing audit INSERT of a command fails, the command ends
\* with an error and without a result, also after its external call was
\* accepted.
C25_AuditFailureIsFatal ==
  [][ \A p \in Procs :
        (proc[p].pc = "insert" /\ proc'[p].pc # "insert" /\ audit' = audit) =>
          /\ proc'[p].pc = "done"
          /\ proc'[p].code # NONE
          /\ proc'[p].result = NoResult
    ]_vars

\* a command whose external call was accepted failed on its audit append
C25_Witness ==
  \E p \in Procs :
    /\ proc[p].pc = "done" /\ proc[p].extCall = "accepted"
    /\ proc[p].code = "SQLITE_BUSY_SNAPSHOT"
    /\ proc[p].result = NoResult

\* well-formed arguments of a gated command
WellFormedNumber(n) == n > 0 /\ n < 2147483647

WellFormed(cmd, raw) ==
  /\ WellFormedNumber(raw.size)
  /\ cmd = "buy" => WellFormedNumber(raw.price)
  /\ cmd = "send" =>
       /\ raw.token \in {"POL", "USDC", "USDC.e", "pol", "usdc", "usdc.e"}
       /\ raw.to \in {"0xAA", "0xBB", "0xaa", "0xbb"}

\* C26: a send, buy or sell invoked on a valid session with a malformed
\* token, address or amount ends at once with ERR_INVALID_PARAMS: no key is
\* reserved, no operation is created and no audit entry is written.
C26_ValidationBeforeDecide ==
  [][ \A p \in Procs :
        ( /\ proc[p].pc = "idle" /\ proc'[p].pc # "idle"
          /\ proc'[p].cmd \in GatedCmds
          /\ SessionOk(session)
          /\ ~WellFormed(proc'[p].cmd, proc'[p].raw) ) =>
          /\ proc'[p].pc = "done"
          /\ proc'[p].code = "ERR_INVALID_PARAMS"
          /\ TablesUnchanged
    ]_vars

\* a malformed request was rejected while another command's operation is
\* pending
C26_Witness ==
  \E p \in Procs :
    /\ proc[p].pc = "done" /\ proc[p].code = "ERR_INVALID_PARAMS"
    /\ proc[p].raw # NoResult
    /\ ~WellFormed(proc[p].cmd, proc[p].raw)
    /\ ops # {}

\* an external call of the process is in flight
InFlight(p) == proc[p].pc \in {"exec", "receipt"}

\* C27: the step in which an external call is accepted writes no table, and
\* whenever a process has an external call in flight, every other process
\* that is about to decide can run its decide transaction.
C27_NoLockAcrossExternalCall ==
  [][ /\ ext' # ext => UNCHANGED <<policies, ops, idem, audit, nextTx>>
      /\ \A p, q \in Procs :
           (InFlight(p) /\ proc[q].pc = "decide") => ENABLED Decide(q)
    ]_vars

\* two processes have their external calls in flight at once: the second
\* committed its decide transaction while the first one's call was pending
C27_Witness ==
  \E p, q \in Procs :
    /\ p # q
    /\ proc[p].pc = "exec" /\ proc[p].atomic = "new"
    /\ proc[q].pc = "exec" /\ proc[q].atomic = "new"
    /\ \E o \in ops : o.tx_id = proc[q].txId /\ o.status = "pending"

\* C28: a dry run ends in its first step, whatever the policy decision, and
\* that step leaves the operations, the key table, the audit log and the
\* record of external calls as they were.
C28_DryRunWritesNothing ==
  [][ \A p \in Procs :
        (proc[p].pc = "idle" /\ proc'[p].pc # "idle" /\ proc'[p].dry) =>
          /\ proc'[p].pc = "done"
          /\ TablesUnchanged
    ]_vars

\* one dry run was allowed and one was denied
C28_Witness ==
  \E p, q \in Procs :
    /\ proc[p].dry /\ proc[p].pc = "done" /\ proc[p].decision = "allowed"
    /\ proc[p].result = [status |-> "dry_run"]
    /\ proc[q].dry /\ proc[q].pc = "done" /\ proc[q].decision = "denied"
    /\ proc[q].code = "ERR_PER_TX_LIMIT_EXCEEDED"

\* the step is aw unlock creating a session
CreatesSession == \E p \in Procs : proc[p].pc = "idle" /\ proc'[p].cmd = "unlock"

\* C29: a command that requires the session gets past the check only while
\* the session file exists, is unexpired and matches the presented token;
\* an expiry is moved only by aw unlock or on a session that is valid at
\* that moment; a session that is not valid becomes valid only by aw unlock.
C29_SessionLifecycle ==
  [][ /\ \A p \in Procs :
           ( /\ proc[p].pc = "idle" /\ proc'[p].pc # "idle"
             /\ proc'[p].cmd \in GatedCmds
             /\ proc'[p].code # "ERR_NEED_UNLOCK" ) => SessionOk(session)
      /\ ( /\ session.file # NoRow /\ session'.file # NoRow
           /\ session'.file.expires_at # session.file.expires_at
           /\ ~CreatesSession ) => SessionOk(session)
      /\ (~SessionOk(session) /\ SessionOk(session')) => CreatesSession
    ]_vars

\* a session that was extended has expired and a command was refused
C29_Witness ==
  /\ session.file # NoRow
  /\ session.file.expires_at > SESSION_TTL_MINUTES
  /\ session.file.expires_at <= session.time
  /\ \E p \in Procs : proc[p].code = "ERR_NEED_UNLOCK"

\* the direct call of runCommand has returned
RunReturned == call.fn = "runCommand" /\ call.output # NoResult

\* C30: the exit code is 0 on success and otherwise determined by the error
\* code reported: 3 for ERR_NEED_UNLOCK and ERR_AUTH_FAILED, 2 for
\* ERR_RPC_UNAVAILABLE and ERR_INTERNAL, 1 for invalid input, every policy
\* denial and insufficient funds.
C30_ExitCodeByErrorCode ==
  RunReturned =>
    LET code == call.output.code
        exit == call.output.exitCode
    IN
    /\ call.input.error = NONE <=> exit = 0
    /\ exit \in 0..3
    /\ code \in {"ERR_NEED_UNLOCK", "ERR_AUTH_FAILED"} => exit = 3
    /\ code \in {"ERR_RPC_UNAVAILABLE", "ERR_INTERNAL"} => exit = 2
    /\ code \in { "ERR_INVALID_PARAMS", "ERR_INVALID_AMOUNT", "ERR_TOKEN_NOT_ALLOWED",
                  "ERR_ADDRESS_NOT_ALLOWED", "ERR_DAILY_LIMIT_EXCEEDED",
                  "ERR_PER_TX_LIMIT_EXCEEDED", "ERR_APPROVAL_THRESHOLD_EXCEEDED",
                  "ERR_TX_COUNT_LIMIT_EXCEEDED", "ERR_INSUFFICIENT_FUNDS" } => exit = 1

\* an error that is not an AppError was reported as an internal failure
C30_Witness ==
  /\ RunReturned
  /\ call.input.error = "SQLITE_BUSY_SNAPSHOT"
  /\ call.output.code = "ERR_INTERNAL"
  /\ call.output.exitCode = 2

\* C31: when a send, buy or sell was killed after its external call was
\* accepted and before its finalize committed, an invocation of the same
\* command with the same key that starts afterwards has no external call
\* accepted, and the operation row of the killed attempt stays in the
\* ledger.
CrashedBeforeFinalize(c) ==
  /\ proc[c].pc = "crashed"
  /\ proc[c].crashedAt = "finalize"
  /\ proc[c].extCall = "accepted"

C31_CrashedAttemptIsKept ==
  \A c, p \in GatedProcs :
    ( /\ CrashedBeforeFinalize(c)
      /\ c \in proc[p].after
      /\ proc[p].key = proc[c].key /\ proc[p].cmd = proc[c].cmd ) =>
      /\ proc[p].extCall # "accepted"
      /\ \E o \in ops : o.tx_id = proc[c].txId

\* C32: a send, buy or sell whose decide phase created a pending operation
\* and that has ended, after its external call was accepted or rejected, has
\* an entry in the audit log for its request and its operation.
C32_ApprovedEndsAudited ==
  \A p \in GatedProcs :
    ( /\ proc[p].pc = "done" /\ proc[p].atomic = "new"
      /\ proc[p].extCall \in {"accepted", "failed"} ) =>
      \E i \in 1..Len(audit) :
        /\ audit[i].wallet_id = proc[p].wallet
        /\ audit[i].action = actionOf(proc[p].cmd)
        /\ audit[i].request = requestOf(proc[p])
        /\ audit[i].result # NoResult => audit[i].result.tx_id = proc[p].txId

\* C33: when a send, buy or sell finalizes, the operation row its decide
\* phase created is in the ledger, and after the step that row carries the
\* tx_hash or the status of the accepted call.
C33_FinalizeUpdatesOneRow ==
  [][ \A p \in Procs :
        (proc[p].pc = "finalize" /\ proc'[p].pc \in {"receipt", "audit"}) =>
          /\ Cardinality({ o \in ops : o.tx_id = proc[p].txId }) = 1
          /\ \E n \in ops' :
               /\ n.tx_id = proc[p].txId
               /\ n.status \in {"broadcasted", "submitted"}
               /\ proc[p].cmd = "send" => n.tx_hash = proc[p].txHash
    ]_vars

\* the tokens aw send stores in the ledger, from every spelling it accepts
SendTokens ==
  { canonicalToken(r) : r \in {"POL", "pol", "USDC", "usdc", "USDC.e", "usdc.e"} }

\* C34: for each of the tokens POL, USDC and USDC.e, recording an operation
\* of the wallet for that token, created today with an active status, raises
\* the todaySpent that dailySpendStats returns for the wallet and that token
\* by the amount of the operation.
C34_EveryAcceptedTokenIsSummed ==
  ( /\ StatsReturned
    /\ call.input.token \in SendTokens
    /\ call.input.row.wallet_id = call.input.walletId
    /\ call.input.row.token = call.input.token
    /\ Counted(call.input.row, call.input.today) ) =>
    call.output.after.todaySpent = call.output.before.todaySpent + call.input.row.amount

\* C35: a send, buy or sell that has ended with an error, no external call
\* of its own having been accepted, has no operation of its own in an active
\* status in the ledger.
C35_FailedAttemptFreesSpend ==
  \A p \in GatedProcs :
    ( /\ proc[p].pc = "done" /\ proc[p].code # NONE
      /\ proc[p].extCall # "accepted" ) =>
      ~ \E o \in ops : o.tx_id = proc[p].txId /\ o.status \in activeStatuses

\* C36: the decide step that approves a predict sell does not raise the
\* todaySpent that dailySpendStats returns for the wallet and USDC, the
\* value a later predict buy or USDC send of the wallet is evaluated with.
C36_SellDoesNotSpend ==
  [][ \A p \in Procs :
        ( /\ proc[p].pc = "decide" /\ proc[p].cmd = "sell"
          /\ proc'[p].atomic = "new" ) =>
          dailySpendStats(ops', now, proc[p].wallet, "USDC").todaySpent
            <= dailySpendStats(ops, now, proc[p].wallet, "USDC").todaySpent
    ]_vars

\* C37: the decide step that ends in a policy denial leaves the operations
\* and the key table exactly as they were, also when the key was bound to a
\* failed or pending operation that the transaction had deleted before it
\* evaluated the policy.
C37_DenialLeavesLedger ==
  [][ \A p \in Procs :
        (proc[p].pc = "decide" /\ proc'[p].atomic = "denied") =>
          /\ proc'[p].pc = "done"
          /\ ops' = ops /\ idem' = idem /\ nextTx' = nextTx
    ]_vars

\* a request was denied on the retry of a pending operation, and that
\* operation and its reservation are still there
C37_Witness ==
  \E p \in Procs :
    /\ proc[p].pc = "done" /\ proc[p].atomic = "denied"
    /\ proc[p].prior = "pending"
    /\ \E o \in ops : /\ o.idempotency_key = proc[p].key /\ o.status = "pending"
                       /\ o.tx_id # proc[p].txId
    /\ idem[proc[p].key] # NoRow
    /\ idem[proc[p].key].status = "reserved"

\* C38: the decision of a decide step is the one evaluatePolicy gives for
\* the policy that is stored for the wallet when the step runs, on the
\* ledger without the operation the step replaces.
C38_DecideUsesStoredPolicy ==
  [][ \A p \in Procs :
        (proc[p].pc = "decide" /\ proc'[p].decision # NONE) =>
          LET q == proc[p]
              others == { o \in ops : o.idempotency_key # q.key }
              stats == dailySpendStats(others, now, q.wallet, q.token)
              d == evaluatePolicy(getPolicy(policies, q.wallet), q.token, q.amount,
                                  q.to, stats, q.cmd = "sell")
          IN /\ proc'[p].decision = d.status
             /\ proc'[p].code = d.code
    ]_vars

====
